---- MODULE Spec2Model ----
(***************************************************************************)
(* Model of the queue poller of plan42-ai/cli (internal/poller): the       *)
(* supervisor (Poller), its autoscaler (scale / doScale) and the queue     *)
(* workers (poll).  Every section of code that runs under p.mux is one     *)
(* atomic action, so every state of the model is a state in which the      *)
(* supervisor mutex is free.  Blocking calls (the GetMessagesBatch long    *)
(* poll) are split into a start and a return step.                         *)
(*                                                                         *)
(* Time is the wall clock in seconds.  sumBatchPct is kept in tenths (a    *)
(* batch of N messages adds N tenths, the code adds float64(N)/10.0).      *)
(***************************************************************************)
EXTENDS Integers, Sequences, FiniteSets, TLC

\* ---------------------------------------------------------------- bounds
\* number of queue descriptors (uuids) createQueueInfo can hand out under Spec
MaxQueues == 2
\* the same under SpecScale, where the supervisor is neither shut down nor closed
MaxScaleQueues == 4
\* the clock stops advancing at MaxTime under Spec
MaxTime == 240
\* the same under SpecScale
MaxScaleTime == 360
\* granularity of the clock
TimeStep == 60
\* cap on the number of samples in one stats window under Spec
MaxBatches == 2
\* the same under SpecScale
MaxScaleBatches == 1
\* failed answers the coordinator gives to the queue-management calls of one
\* run under SpecRpc
MaxFaults == 5
\* the clock stops advancing at MaxRpcTime under SpecRpc
MaxRpcTime == 120
\* the clock stops advancing at MaxShutdownTime under SpecShutdown
MaxShutdownTime == 120
\* longest timeout given to ShutdownTimeout, in clock steps
MaxTimeoutSteps == 1
\* the clock stops advancing at MaxKeyTime under SpecKeyFail
MaxMsgs == 2
MaxMuxWorkers == 1
\* containers the runtime runs at once, files the log directory holds
MaxContainers == 2
MaxLogFiles == 2
MaxCloseTime == 60
MaxBackoffFaults == 10
MaxKeyTime == 120
\* the clock stops advancing at MaxSignalTime under SpecSignal
MaxSignalTime == 180
\* the clock stops advancing at MaxSharedTime and the coordinator fails at most
\* MaxSharedFaults queue-management calls under SpecShared
MaxSharedTime == 60
MaxSharedFaults == 2

\* ------------------------------------------------------ program constants
\* time.Minute, in seconds
Minute == 60
\* drain grace (30*time.Second)
DrainGrace == 30
\* nominal full batch (the 10.0 of doPoll)
BatchCap == 10
\* scale-up threshold 0.8 and scale-down threshold 0.4, in tenths
UpTenths == 8
DownTenths == 4
\* zero value of time.Time (lastScaleEvent before it is first set)
ZeroTime == -1
\* attempts of deleteQueue and markAsDraining
maxRetries == 5
\* concurrency.NewBackoff(10*time.Millisecond, 5*time.Second), in ms
QmMin == 10
QmMax == 5000
\* a ShutdownContext whose ctx carries no deadline
NoDeadline == -1

Ids == 1..(IF MaxQueues > MaxScaleQueues THEN MaxQueues ELSE MaxScaleQueues)
\* sizes of the batches GetMessagesBatch returns in the model
BatchSizes == {0, 4, 6, 8, 10}
\* results of one GetMessagesBatch call
PollResults ==
    {[kind |-> "batch", n |-> k] : k \in BatchSizes}
        \cup {[kind |-> "NotFound", n |-> 0], [kind |-> "Error", n |-> 0]}

\* p.batchBackoff = concurrency.NewBackoff(1*time.Millisecond, 50*time.Millisecond), in ms
BatchMin == 1
BatchMax == 50
\* jobPrefix, as the sequence of its characters
jobPrefix == <<"p", "l", "a", "n", "4", "2", "-">>
\* names a container or a log file can carry, in the order of their file
\* names: one of another program, one without a turn index, two that spell
\* turn 1 of task a, one whose task id holds a dash, one whose turn index is
\* no number, one whose turn index is signed
FileNames ==
    << <<"j", "o", "b", "-", "a", "-", "1">>,
       jobPrefix \o <<"a">>,
       jobPrefix \o <<"a", "-", "0", "1">>,
       jobPrefix \o <<"a", "-", "1">>,
       jobPrefix \o <<"a", "-", "b", "-", "2">>,
       jobPrefix \o <<"a", "-", "x">>,
       jobPrefix \o <<"b", "-", "+", "1">> >>
JobNames == {FileNames[i] : i \in 1..Len(FileNames)}
\* no call of GetJobs has been made
NoListing ==
    [called |-> FALSE, includeCompleted |-> FALSE, running |-> {}, all |-> {}, err |-> FALSE,
     jobs |-> <<>>]
\* the messages a run may deliver, and the callers that send them
MsgIds == 1..MaxMsgs
Callers == {1, 2}
\* sizes of the batches GetMessagesBatch returns when the messages are followed
MsgPollResults ==
    {[kind |-> "batch", n |-> k] : k \in 0..MaxMsgs} \cup {[kind |-> "Error", n |-> 0]}

\* the goroutines that use p.mux or do I/O: the workers (poll), the message
\* tasks of each worker (processMessage), the scaler (scale) and the caller of
\* ShutdownContext; MuxFree stands for an unlocked p.mux
MuxWorkers == 1..MaxMuxWorkers
Worker(i) == <<"worker", i>>
MsgTask(i) == <<"task", i>>
Scaler == <<"scaler", 0>>
Caller == <<"caller", 0>>
MuxFree == <<"free", 0>>
Procs == {Worker(i) : i \in MuxWorkers} \cup {MsgTask(i) : i \in MuxWorkers} \cup {Scaler, Caller}

VARIABLES
    clock,                \* time.Now()
    queues,               \* p.queues: sequence of queue ids
    nExpectedQueueCount,  \* p.nExpectedQueueCount
    nActualQueueCount,    \* p.nActualQueueCount
    lastScaleEvent,       \* p.lastScaleEvent
    sumBatchPct,          \* p.sumBatchPct, in tenths
    nBatches,             \* p.nBatches
    measureStart,         \* p.measureStart
    scaleCancelled,       \* p.scaleCtx cancelled by cancelScale
    cgCancelled,          \* p.cg context cancelled (Close)
    shutdownCalled,       \* ShutdownContext has been invoked
    nextId,               \* next fresh queue id (uuid.NewString)
    idLimit,              \* number of ids the run may use (never changes)
    timeLimit,            \* time at which the clock stops (never changes)
    batchLimit,           \* samples one stats window may hold (never changes)
    faultLimit,           \* failed answers the coordinator may give in the run (never changes)
    faults,               \* failed answers the coordinator has given so far
    slowHandlers,         \* message tasks may outlive the poll that spawned them (never changes)
    keyGenFails,          \* ecdsa.GenerateKey may return an error (never changes)
    pc,                   \* position of the worker goroutine of each queue
    drain,                \* qi.drain is closed
    draining,             \* qi.draining
    skipDelete,           \* qi.skipDelete
    cancelled,            \* qi.cancel() has been called
    startDrain,           \* startDrain of poll
    getForDelete,         \* GetRunnerQueue issued by deleteQueue for the queue
    deleteCalls,          \* DeleteRunnerQueue issued for the queue
    registered,           \* RegisterRunnerQueue answered ok or Conflict for the queue
    registerCalls,        \* number of RegisterRunnerQueue calls issued for the queue
    updateCalled,         \* UpdateRunnerQueue issued for the queue
    opLog,                \* the calls of the queue's last run of markAsDraining or deleteQueue
    qmDelay,              \* current delay of p.queueManagementBackoff, in ms
    busy,                 \* a processMessage task of the queue is still running
    trackMsgs,            \* the run follows each message to its reply (never changes)
    trackBackoff,         \* the run follows the delay of the batch backoff (never changes)
    trackMux,             \* the run follows the goroutines around p.mux (never changes)
    trackSignal,          \* the run follows the two statements of signalDrain (never changes)
    msgs,                 \* the messages delivered so far and what their tasks did
    agentJobs,            \* the agent job started for each message: none, launched, finished, killed
    nextMsg,              \* id of the next message the coordinator delivers
    batchDelay,           \* current delay of p.batchBackoff, in ms
    mux,                  \* the goroutine that holds p.mux
    at,                   \* the statement each goroutine is at, for the use of p.mux
    inDrain,              \* the worker has left the polling loop for the drain loop
    containers,           \* names of the containers the runtime is running
    logFiles,             \* names of the files in the provider's logDir
    listed,               \* the last call of GetJobs: what the provider reported, what it returned
    shutdownAt,           \* time of the call of ShutdownContext
    shutdownDeadline,     \* deadline of the ctx given to ShutdownContext
    shutdownReturn,       \* what ShutdownContext returned: "none" while it has not
    shutdownQueues,       \* history: the queues drainAll found in p.queues
    lastChange,           \* history: time of the last tick that changed the worker set
    lastDown,             \* history: time of the last tick that removed a worker
    panicked              \* a goroutine panicked: the process is gone

statsVars == <<sumBatchPct, nBatches, measureStart>>
scaleVars == <<queues, nExpectedQueueCount, nActualQueueCount, lastScaleEvent>>
limitVars == <<idLimit, timeLimit, batchLimit, faultLimit, slowHandlers, keyGenFails, trackMsgs,
              trackBackoff, trackMux, trackSignal>>
lockVars == <<mux, at, inDrain>>
jobVars == <<containers, logFiles, listed>>
ctlVars == <<scaleCancelled, cgCancelled, shutdownCalled, limitVars, lockVars, jobVars>>
queueVars == <<drain, draining, skipDelete, cancelled, startDrain>>
rpcVars == <<getForDelete, deleteCalls>>
histVars == <<lastChange, lastDown>>
opVars == <<registered, registerCalls, updateCalled, opLog, qmDelay, faults>>
waitVars == <<shutdownAt, shutdownDeadline, shutdownReturn, shutdownQueues>>
taskVars == <<busy, msgs, nextMsg, agentJobs>>
vars == <<clock, statsVars, scaleVars, ctlVars, nextId, pc, queueVars, rpcVars, histVars, panicked,
          opVars, batchDelay, taskVars, waitVars>>

\* ---------------------------------------------------------------- helpers
\* ecdsa.GenerateKey(elliptic.P256(), rand.Reader) in createQueueInfo, TRUE
\* for a key: the module is built with go 1.25.5, where crypto/rand.Reader
\* never returns an error, so the call fails only in the runs that assume a
\* failing generator
KeyGenResults == IF keyGenFails THEN {TRUE, FALSE} ELSE {TRUE}

Range(s) == {s[i] : i \in 1..Len(s)}

\* slices.Index(p.queues, qi), 0 when absent (Go: -1)
Index(s, q) == IF q \in Range(s) THEN CHOOSE i \in 1..Len(s) : s[i] = q ELSE 0

\* append(s[:idx], s[idx+1:]...)
RemoveAt(s, idx) == [i \in 1..(Len(s) - 1) |-> IF i < idx THEN s[i] ELSE s[i + 1]]

\* now.Sub(t); the zero time is further back than any gate
Sub(now, t) == IF t = ZeroTime THEN 2 * Minute ELSE now - t

\* qi.ctx.Err() != nil: qi.ctx is a child of the group context
CtxErr(q) == cgCancelled \/ cancelled[q]

\* createQueueInfo hands out fresh ids while the model has some left
CanCreate(n) == nextId + n - 1 <= idLimit

\* a worker goroutine exists and has not returned
Running(q) == pc[q] \notin {"none", "done"}

\* Backoff(): the delay doubles, capped at max
BackoffDelay(d) == IF 2 * d > QmMax THEN QmMax ELSE 2 * d

\* Recover(): the delay is back at min
RecoverDelay(d) == QmMin

\* a Backoff() that doubles the delay without a cap
BatchBackoffDelay_Uncapped(d) == 2 * d

\* Backoff() and Recover() of p.batchBackoff
BatchBackoffDelay(d) == IF 2 * d > BatchMax THEN BatchMax ELSE 2 * d
BatchRecoverDelay(d) == BatchMin

\* ------------------------------------------------------------- envelopes
\* keys: the private key createQueueInfo generates for a queue, the private
\* key a caller holds, and the public half of a private key
QueuePriv(q) == [owner |-> "queue", id |-> q, half |-> "private"]
CallerPriv(c) == [owner |-> "caller", id |-> c, half |-> "private"]
PubOf(priv) == [priv EXCEPT !.half = "public"]
NoKey == [owner |-> "none", id |-> 0, half |-> "public"]

\* the PEM text of a public key, a text that is no PEM of a key, and
\* ecies.PemToPubKey: the key of a PEM text, or an error
Pem(pub) == [pem |-> TRUE, of |-> pub]
BadPem == [pem |-> FALSE, of |-> NoKey]
PemToPubKey(text) == [ok |-> text.pem, key |-> text.of]

\* ecies.Wrap seals data for the holder of a public key; ecies.Unwrap opens
\* a wrapped secret with a private key, and fails with any other key
Wrap(data, pub) == [to |-> pub, data |-> data]
Unwrap(w, priv) == [ok |-> w.to = PubOf(priv), data |-> w.data]

\* json.Marshal of a message, and bytes that are no JSON document
Marshal(msg) == [json |-> TRUE, doc |-> msg]
NoDoc == [type |-> "", body |-> "", errorMessage |-> FALSE]
Garbage == [json |-> FALSE, doc |-> NoDoc]

\* the message types parseMessage has a handler for
KnownTypes ==
    {"PingRequest", "InvokeAgentRequest", "ListOrgsForGithubConnectionRequest",
     "SearchRepoRequest"}
\* the request of a type that caller c sends
Request(type, c) == [type |-> type, body |-> c, errorMessage |-> FALSE]

\* parseMessage: the typed request of a JSON document, or an error for bytes
\* that are no document or a document of an unknown type
ParseMessage(data) == [ok |-> data.json /\ data.doc.type \in KnownTypes, msg |-> data.doc]

\* parsedMsg.Process(ctx): the reply to a request; a handler that fails
\* reports the failure in the reply
Process(req, failed) == [type |-> "Response", body |-> req.body, errorMessage |-> failed]

\* a p42.RunnerMessage of GetMessagesBatch
Envelope(m, c, text, payload) ==
    [messageId |-> m, callerId |-> c, callerPublicKey |-> text, payload |-> payload]
NoEnv == Envelope(0, 0, BadPem, Wrap(Garbage, NoKey))

\* what the coordinator delivers on queue q for one message: who sends it,
\* the PEM text of the sender's key and the wrapped request. Every caller
\* sends a request parseMessage knows; the first one also sends a request of
\* an unknown type, bytes that are no JSON, a request wrapped for another
\* key, and a key text that is no PEM
Delivery(c, text, doc, pub) == [caller |-> c, text |-> text, payload |-> Wrap(doc, pub)]
Deliveries(q) ==
    LET own(c) == Pem(PubOf(CallerPriv(c)))
        ask(c) == Marshal(Request("InvokeAgentRequest", c))
    IN  {Delivery(c, own(c), ask(c), PubOf(QueuePriv(q))) : c \in Callers}
            \cup {Delivery(1, own(1), Marshal(Request("ListRepoBranchesRequest", 1)),
                           PubOf(QueuePriv(q))),
                  Delivery(1, own(1), Garbage, PubOf(QueuePriv(q))),
                  Delivery(1, own(1), ask(1), PubOf(QueuePriv(0))),
                  Delivery(1, BadPem, ask(1), PubOf(QueuePriv(q)))}

\* a p42.WriteResponseRequest, and the value before any was sent
WriteRequest(q, m, c, payload) ==
    [queueId |-> q, messageId |-> m, callerId |-> c, payload |-> payload]
NoWrite == WriteRequest(0, 0, 0, Wrap(Garbage, NoKey))

\* the record of a message: none before it is delivered, received while its
\* processMessage task runs, done when the task has returned; resp is the
\* reply of its handler, writes the WriteResponse calls of its task and
\* posted the request of the last one
NoMsg ==
    [st |-> "none", queue |-> 0, env |-> NoEnv, resp |-> NoDoc, writes |-> 0,
     posted |-> NoWrite, result |-> "none"]
Received(q, m, d) ==
    [NoMsg EXCEPT !.st = "received", !.queue = q,
                  !.env = Envelope(m, d.caller, d.text, d.payload)]

\* opLog of a queue before any run of markAsDraining or deleteQueue
NoOp == [kind |-> "none", gets |-> 0, calls |-> 0, conflicts |-> 0, sent |-> 0, ok |-> FALSE]

\* ------------------------------------------------------------------- Init
\* state after New: one descriptor, its worker and the scaler are spawned
Constructed ==
    /\ clock = 0
    /\ queues = <<1>>
    /\ nExpectedQueueCount = 1
    /\ nActualQueueCount = 0
    /\ lastScaleEvent = ZeroTime
    /\ sumBatchPct = 0
    /\ nBatches = 0
    /\ measureStart = 0
    /\ scaleCancelled = FALSE
    /\ cgCancelled = FALSE
    /\ shutdownCalled = FALSE
    /\ nextId = 2
    /\ pc = [q \in Ids |-> IF q = 1 THEN "creating" ELSE "none"]
    /\ drain = [q \in Ids |-> FALSE]
    /\ draining = [q \in Ids |-> FALSE]
    /\ skipDelete = [q \in Ids |-> FALSE]
    /\ cancelled = [q \in Ids |-> FALSE]
    /\ startDrain = [q \in Ids |-> ZeroTime]
    /\ getForDelete = [q \in Ids |-> FALSE]
    /\ deleteCalls = [q \in Ids |-> FALSE]
    /\ lastChange = ZeroTime
    /\ lastDown = ZeroTime
    /\ panicked = FALSE
    /\ registered = [q \in Ids |-> FALSE]
    /\ registerCalls = [q \in Ids |-> 0]
    /\ updateCalled = [q \in Ids |-> FALSE]
    /\ opLog = [q \in Ids |-> NoOp]
    /\ qmDelay = QmMin
    /\ faults = 0
    /\ busy = [q \in Ids |-> FALSE]
    /\ msgs = [m \in (IF trackMsgs THEN MsgIds ELSE {}) |-> NoMsg]
    /\ nextMsg = 1
    /\ agentJobs = [m \in (IF trackMsgs THEN MsgIds ELSE {}) |-> "none"]
    /\ batchDelay = BatchMin
    /\ mux = MuxFree
    /\ at = [g \in (IF trackMux THEN Procs ELSE {}) |->
                 IF g = Worker(1) THEN "start"
                 ELSE IF g = Scaler THEN "tick"
                 ELSE IF g = Caller THEN "idle" ELSE "none"]
    /\ inDrain = [i \in (IF trackMux THEN MuxWorkers ELSE {}) |-> FALSE]
    /\ listed = NoListing
    /\ shutdownAt = ZeroTime
    /\ shutdownDeadline = NoDeadline
    /\ shutdownReturn = "none"
    /\ shutdownQueues = {}

Init ==
    /\ idLimit = MaxQueues /\ timeLimit = MaxTime /\ batchLimit = MaxBatches
    /\ faultLimit = 0 /\ slowHandlers = FALSE /\ keyGenFails = FALSE /\ trackMsgs = FALSE
    /\ trackBackoff = FALSE
    /\ trackMux = FALSE
    /\ trackSignal = FALSE
    /\ containers = {} /\ logFiles = {}
    /\ Constructed

InitScale ==
    /\ idLimit = MaxScaleQueues /\ timeLimit = MaxScaleTime /\ batchLimit = MaxScaleBatches
    /\ faultLimit = 0 /\ slowHandlers = FALSE /\ keyGenFails = FALSE /\ trackMsgs = FALSE
    /\ trackBackoff = FALSE
    /\ trackMux = FALSE
    /\ trackSignal = FALSE
    /\ containers = {} /\ logFiles = {}
    /\ Constructed

\* one queue and its worker against a coordinator whose queue-management
\* calls fail
InitRpc ==
    /\ idLimit = 1 /\ timeLimit = MaxRpcTime /\ batchLimit = 1
    /\ faultLimit = MaxFaults /\ slowHandlers = FALSE /\ keyGenFails = FALSE /\ trackMsgs = FALSE
    /\ trackBackoff = FALSE
    /\ trackMux = FALSE
    /\ trackSignal = FALSE
    /\ containers = {} /\ logFiles = {}
    /\ Constructed

\* the supervisor over unbounded time: the clock runs up to the longest gate
\* of the program, two minutes, and time that passes later moves the time
\* stamps back instead
InitLive ==
    /\ idLimit = 2 /\ timeLimit = 2 * Minute /\ batchLimit = 1
    /\ faultLimit = 0 /\ slowHandlers = FALSE /\ keyGenFails = FALSE /\ trackMsgs = FALSE
    /\ trackBackoff = FALSE
    /\ trackMux = FALSE
    /\ trackSignal = FALSE
    /\ containers = {} /\ logFiles = {}
    /\ Constructed

\* the supervisor with a key generator that can fail
InitKeyFail ==
    /\ idLimit = 2 /\ timeLimit = MaxKeyTime /\ batchLimit = 1
    /\ faultLimit = 0 /\ slowHandlers = FALSE /\ keyGenFails = TRUE /\ trackMsgs = FALSE
    /\ trackBackoff = FALSE
    /\ trackMux = FALSE
    /\ trackSignal = FALSE
    /\ containers = {} /\ logFiles = {}
    /\ Constructed

\* the supervisor with slow message tasks, shut down with a timeout
InitShutdown ==
    /\ idLimit = 2 /\ timeLimit = MaxShutdownTime /\ batchLimit = 1
    /\ faultLimit = 0 /\ slowHandlers = TRUE /\ keyGenFails = FALSE /\ trackMsgs = FALSE
    /\ trackBackoff = FALSE
    /\ trackMux = FALSE
    /\ trackSignal = FALSE
    /\ containers = {} /\ logFiles = {}
    /\ Constructed

\* one queue and its worker, the delays of both backoffs followed, against a
\* coordinator that fails often enough for both to reach their caps
InitBackoff ==
    /\ idLimit = 1 /\ timeLimit = 0 /\ batchLimit = 1
    /\ faultLimit = MaxBackoffFaults /\ slowHandlers = FALSE /\ keyGenFails = FALSE
    /\ trackMsgs = FALSE
    /\ trackBackoff = TRUE
    /\ trackMux = FALSE
    /\ trackSignal = FALSE
    /\ containers = {} /\ logFiles = {}
    /\ Constructed

\* the supervisor with slow message tasks, closed at any moment
InitClose ==
    /\ idLimit = 2 /\ timeLimit = MaxCloseTime /\ batchLimit = 1
    /\ faultLimit = 0 /\ slowHandlers = TRUE /\ keyGenFails = FALSE /\ trackMsgs = FALSE
    /\ trackBackoff = FALSE
    /\ trackMux = FALSE
    /\ trackSignal = FALSE
    /\ containers = {} /\ logFiles = {}
    /\ Constructed

\* the goroutines of the supervisor around p.mux, from construction
InitMux ==
    /\ idLimit = 1 /\ timeLimit = 0 /\ batchLimit = 1
    /\ faultLimit = 0 /\ slowHandlers = FALSE /\ keyGenFails = FALSE /\ trackMsgs = FALSE
    /\ trackBackoff = FALSE
    /\ trackMux = TRUE
    /\ trackSignal = FALSE
    /\ containers = {} /\ logFiles = {}
    /\ Constructed

\* one queue whose messages are followed one by one
InitMsg ==
    /\ idLimit = 1 /\ timeLimit = 0 /\ batchLimit = 1
    /\ faultLimit = 0 /\ slowHandlers = FALSE /\ keyGenFails = FALSE /\ trackMsgs = TRUE
    /\ trackBackoff = TRUE
    /\ trackMux = FALSE
    /\ trackSignal = FALSE
    /\ containers = {} /\ logFiles = {}
    /\ Constructed

\* ------------------------------------------------------------------ clock
\* cg.WaitContext(ctx) of a ShutdownContext is waiting and ctx has expired
WaitExpired ==
    /\ shutdownCalled /\ shutdownReturn = "none"
    /\ shutdownDeadline # NoDeadline /\ clock >= shutdownDeadline

\* time passes; a wait whose ctx has expired returns before it does
Advance ==
    /\ ~panicked
    /\ ~WaitExpired
    /\ clock + TimeStep <= timeLimit
    /\ clock' = clock + TimeStep
    /\ UNCHANGED <<statsVars, scaleVars, ctlVars, nextId, pc, queueVars, rpcVars, histVars, panicked,
                   opVars, batchDelay, taskVars, waitVars>>

\* a time stamp after TimeStep more seconds have passed, relative to a clock
\* that is left where it is; a time stamp older than every gate stays so
Rebase(t) ==
    IF t = ZeroTime THEN ZeroTime
    ELSE IF t - TimeStep < 0 THEN 0
    ELSE t - TimeStep

\* time passes once the clock has reached timeLimit
AdvanceLate ==
    /\ ~panicked
    /\ ~WaitExpired
    /\ clock + TimeStep > timeLimit
    /\ measureStart' = Rebase(measureStart)
    /\ lastScaleEvent' = Rebase(lastScaleEvent)
    /\ startDrain' = [q \in Ids |-> Rebase(startDrain[q])]
    /\ shutdownAt' = Rebase(shutdownAt)
    /\ shutdownDeadline' = Rebase(shutdownDeadline)
    /\ lastChange' = Rebase(lastChange)
    /\ lastDown' = Rebase(lastDown)
    /\ UNCHANGED <<clock, sumBatchPct, nBatches, queues, nExpectedQueueCount, nActualQueueCount,
                   ctlVars, nextId, pc, drain, draining, skipDelete, cancelled, rpcVars,
                   panicked, opVars, batchDelay, taskVars, shutdownReturn,
                   shutdownQueues>>

\* ----------------------------------------------------------------- scaler
\* resetStats
ResetStats ==
    /\ measureStart' = clock
    /\ nBatches' = 0
    /\ sumBatchPct' = 0

\* signalDrain for every queue of S, called with p.mux held: close(qi.drain)
\* and qi.draining = true, unless qi.draining is already set; a run that
\* follows the two statements stops between them, SetDraining is the second
SignalDrain(S) ==
    /\ drain' = [q \in Ids |-> IF q \in S /\ ~draining[q] THEN TRUE ELSE drain[q]]
    /\ draining' = IF trackSignal THEN draining
                   ELSE [q \in Ids |-> IF q \in S THEN TRUE ELSE draining[q]]

\* signalDrain of poll, called without p.mux: qi.draining is read while the
\* signaller may be about to write it, and close(qi.drain) on the channel the
\* signaller has closed is a runtime panic
SignalDrainUnlocked(q) ==
    IF draining[q]
    THEN UNCHANGED <<drain, draining, panicked>>
    ELSE IF drain[q]
    THEN panicked' = TRUE /\ UNCHANGED <<drain, draining>>
    ELSE /\ drain' = [drain EXCEPT ![q] = TRUE]
         /\ draining' = [draining EXCEPT ![q] = TRUE]
         /\ UNCHANGED panicked

\* scaleUp that adds a single queue instead of len(p.queues)
ScaleUp_AddOne ==
    \E ok \in KeyGenResults :
        LET k == IF ok /\ Len(queues) > 0 THEN 1 ELSE 0
        IN  /\ CanCreate(k)
            /\ ResetStats
            /\ queues' = queues \o [i \in 1..k |-> nextId + i - 1]
            /\ nExpectedQueueCount' = nExpectedQueueCount + k
            /\ nextId' = nextId + k
            /\ pc' = [q \in Ids |-> IF q >= nextId /\ q < nextId + k THEN "creating" ELSE pc[q]]
            /\ lastScaleEvent' = IF nExpectedQueueCount' = nActualQueueCount
                                 THEN clock ELSE lastScaleEvent
            /\ UNCHANGED <<drain, draining, panicked>>

\* scaleUp: one new descriptor and worker per queue in the list
ScaleUp ==
    \E ok \in [1..Len(queues) -> KeyGenResults] :
        LET k == Cardinality({i \in 1..Len(queues) : ok[i]})
        IN  /\ CanCreate(k)
            /\ ResetStats
            /\ queues' = queues \o [i \in 1..k |-> nextId + i - 1]
            /\ nExpectedQueueCount' = nExpectedQueueCount + k
            /\ nextId' = nextId + k
            /\ pc' = [q \in Ids |-> IF q >= nextId /\ q < nextId + k THEN "creating" ELSE pc[q]]
            /\ lastScaleEvent' = IF nExpectedQueueCount' = nActualQueueCount
                                 THEN clock ELSE lastScaleEvent
            /\ UNCHANGED <<drain, draining, panicked>>

\* scaleDown that forgets p.nExpectedQueueCount--
ScaleDown_KeepExpected ==
    /\ ResetStats
    /\ IF Len(queues) = 1
       THEN /\ lastScaleEvent' = clock
            /\ UNCHANGED <<queues, nExpectedQueueCount, drain, draining, panicked>>
       ELSE IF Len(queues) = 0
       THEN /\ panicked' = TRUE
            /\ UNCHANGED <<queues, nExpectedQueueCount, lastScaleEvent, drain, draining>>
       ELSE /\ queues' = SubSeq(queues, 1, Len(queues) - 1)
            /\ SignalDrain({queues[Len(queues)]})
            /\ UNCHANGED <<nExpectedQueueCount, lastScaleEvent, panicked>>
    /\ UNCHANGED <<nextId, pc>>

\* scaleDown without the len(p.queues) == 1 check
ScaleDown_NoMinimum ==
    /\ ResetStats
    /\ IF Len(queues) = 0
       THEN /\ nExpectedQueueCount' = nExpectedQueueCount - 1
            /\ panicked' = TRUE
            /\ UNCHANGED <<queues, lastScaleEvent, drain, draining>>
       ELSE /\ nExpectedQueueCount' = nExpectedQueueCount - 1
            /\ queues' = SubSeq(queues, 1, Len(queues) - 1)
            /\ SignalDrain({queues[Len(queues)]})
            /\ UNCHANGED <<lastScaleEvent, panicked>>
    /\ UNCHANGED <<nextId, pc>>

\* scaleDown that drops the first descriptor of the list instead of the last
ScaleDown_RemoveFirst ==
    /\ ResetStats
    /\ IF Len(queues) = 1
       THEN /\ lastScaleEvent' = clock
            /\ UNCHANGED <<queues, nExpectedQueueCount, drain, draining, panicked>>
       ELSE IF Len(queues) = 0
       THEN /\ nExpectedQueueCount' = nExpectedQueueCount - 1
            /\ panicked' = TRUE
            /\ UNCHANGED <<queues, lastScaleEvent, drain, draining>>
       ELSE /\ nExpectedQueueCount' = nExpectedQueueCount - 1
            /\ queues' = Tail(queues)
            /\ SignalDrain({Head(queues)})
            /\ UNCHANGED <<lastScaleEvent, panicked>>
    /\ UNCHANGED <<nextId, pc>>

\* scaleDown: drop the last descriptor and signal its worker to drain
ScaleDown ==
    /\ ResetStats
    /\ IF Len(queues) = 1
       THEN /\ lastScaleEvent' = clock
            /\ UNCHANGED <<queues, nExpectedQueueCount, drain, draining, panicked>>
       ELSE IF Len(queues) = 0
       THEN \* p.queues[len(p.queues)-1] is out of range: runtime panic
            /\ nExpectedQueueCount' = nExpectedQueueCount - 1
            /\ panicked' = TRUE
            /\ UNCHANGED <<queues, lastScaleEvent, drain, draining>>
       ELSE /\ nExpectedQueueCount' = nExpectedQueueCount - 1
            /\ queues' = SubSeq(queues, 1, Len(queues) - 1)
            /\ SignalDrain({queues[Len(queues)]})
            /\ UNCHANGED <<lastScaleEvent, panicked>>
    /\ UNCHANGED <<nextId, pc>>

\* a tick that returns without touching anything
NoScale ==
    UNCHANGED <<statsVars, queues, nExpectedQueueCount, lastScaleEvent,
                nextId, pc, drain, draining, panicked>>

\* a tick that only resets the stats window
ResetOnly ==
    /\ ResetStats
    /\ UNCHANGED <<queues, nExpectedQueueCount, lastScaleEvent,
                   nextId, pc, drain, draining, panicked>>

\* doScale without the nExpectedQueueCount != nActualQueueCount return
Decision_NoQuiesce ==
    IF Sub(clock, measureStart) < Minute THEN "warmup"
    ELSE IF Sub(clock, lastScaleEvent) < Minute THEN "dwell"
    ELSE IF nBatches = 0 THEN "nosamples"
    ELSE IF sumBatchPct >= UpTenths * nBatches THEN "up"
    ELSE IF Sub(clock, measureStart) < 2 * Minute THEN "warmup2"
    ELSE IF Sub(clock, lastScaleEvent) < 2 * Minute THEN "cooldown"
    ELSE IF sumBatchPct <= DownTenths * nBatches THEN "down"
    ELSE "steady"

\* doScale without the one-minute measureStart return
Decision_NoWarmup ==
    IF nExpectedQueueCount # nActualQueueCount THEN "wait"
    ELSE IF Sub(clock, lastScaleEvent) < Minute THEN "dwell"
    ELSE IF nBatches = 0 THEN "nosamples"
    ELSE IF sumBatchPct >= UpTenths * nBatches THEN "up"
    ELSE IF Sub(clock, measureStart) < 2 * Minute THEN "warmup2"
    ELSE IF Sub(clock, lastScaleEvent) < 2 * Minute THEN "cooldown"
    ELSE IF sumBatchPct <= DownTenths * nBatches THEN "down"
    ELSE "steady"

\* doScale without the two one-minute returns
Decision_UngatedUp ==
    IF nExpectedQueueCount # nActualQueueCount THEN "wait"
    ELSE IF nBatches = 0 THEN "nosamples"
    ELSE IF sumBatchPct >= UpTenths * nBatches THEN "up"
    ELSE IF Sub(clock, measureStart) < 2 * Minute THEN "warmup2"
    ELSE IF Sub(clock, lastScaleEvent) < 2 * Minute THEN "cooldown"
    ELSE IF sumBatchPct <= DownTenths * nBatches THEN "down"
    ELSE "steady"

\* the gates of doScale, in the order of the code
Decision ==
    IF nExpectedQueueCount # nActualQueueCount THEN "wait"
    ELSE IF Sub(clock, measureStart) < Minute THEN "warmup"
    ELSE IF Sub(clock, lastScaleEvent) < Minute THEN "dwell"
    ELSE IF nBatches = 0 THEN "nosamples"
    ELSE IF sumBatchPct >= UpTenths * nBatches THEN "up"
    ELSE IF Sub(clock, measureStart) < 2 * Minute THEN "warmup2"
    ELSE IF Sub(clock, lastScaleEvent) < 2 * Minute THEN "cooldown"
    ELSE IF sumBatchPct <= DownTenths * nBatches THEN "down"
    ELSE "steady"

\* scale() takes the tick: scaleCtx is not done, or it was cancelled by
\* ShutdownContext at this very instant and select took the pending tick
ScalerTicks ==
    /\ ~cgCancelled
    /\ ~scaleCancelled \/ clock = shutdownAt

\* one tick of scale(): doScale under p.mux
DoScale ==
    /\ ~panicked
    /\ ScalerTicks
    /\ CASE Decision \in {"wait", "warmup", "dwell", "nosamples", "warmup2"} -> NoScale
         [] Decision = "up" -> ScaleUp
         [] Decision = "down" -> ScaleDown
         [] Decision \in {"cooldown", "steady"} -> ResetOnly
    /\ lastChange' = IF queues' # queues THEN clock ELSE lastChange
    /\ lastDown' = IF Len(queues') < Len(queues) THEN clock ELSE lastDown
    /\ UNCHANGED <<clock, nActualQueueCount, ctlVars, skipDelete, cancelled,
                   startDrain, rpcVars, opVars, batchDelay, taskVars, waitVars>>

\* ---------------------------------------------------------------- workers
\* results of RegisterRunnerQueue
RegisterResults == {"ok", "conflict", "error"}

\* increaseActualQueueCount
IncreaseActualQueueCount ==
    /\ nActualQueueCount' = nActualQueueCount + 1
    /\ lastScaleEvent' = IF nActualQueueCount + 1 = nExpectedQueueCount
                         THEN clock ELSE lastScaleEvent

\* decreaseActualQueueCount that leaves the counter alone
DecreaseActualQueueCount_Keep ==
    UNCHANGED <<nActualQueueCount, lastScaleEvent>>

\* decreaseActualQueueCount that never writes p.lastScaleEvent
DecreaseActualQueueCount_NoStamp ==
    /\ nActualQueueCount' = nActualQueueCount - 1
    /\ UNCHANGED lastScaleEvent

\* decreaseActualQueueCount
DecreaseActualQueueCount ==
    /\ nActualQueueCount' = nActualQueueCount - 1
    /\ lastScaleEvent' = IF nActualQueueCount - 1 = nExpectedQueueCount
                         THEN clock ELSE lastScaleEvent

\* addStats(float64(n) / 10.0), in tenths
AddStats(n) ==
    /\ sumBatchPct' = sumBatchPct + n
    /\ nBatches' = nBatches + 1
    /\ UNCHANGED measureStart

\* createQueue that does not look at the drain signal
CreateQueue_IgnoreDrain(q, res) ==
    /\ ~panicked
    /\ pc[q] = "creating"
    /\ IF CtxErr(q)
       THEN /\ IncreaseActualQueueCount
            /\ pc' = [pc EXCEPT ![q] = "aborting"]
            /\ UNCHANGED <<registered, registerCalls, qmDelay, faults>>
       ELSE IF res = "error"
       THEN /\ faults < faultLimit
            /\ faults' = faults + 1
            /\ registerCalls' = [registerCalls EXCEPT ![q] = @ + 1]
            /\ qmDelay' = BackoffDelay(qmDelay)
            /\ UNCHANGED <<nActualQueueCount, lastScaleEvent, pc, registered>>
       ELSE /\ IncreaseActualQueueCount
            /\ registerCalls' = [registerCalls EXCEPT ![q] = @ + 1]
            /\ registered' = [registered EXCEPT ![q] = TRUE]
            /\ qmDelay' = IF res = "ok" THEN RecoverDelay(qmDelay) ELSE qmDelay
            /\ pc' = [pc EXCEPT ![q] = "polling"]
            /\ UNCHANGED faults
    /\ UNCHANGED <<clock, statsVars, queues, nExpectedQueueCount, ctlVars, nextId,
                   queueVars, rpcVars, histVars, panicked, updateCalled, opLog, batchDelay, taskVars,
                   waitVars>>

\* createQueue and its deferred increaseActualQueueCount: the worker leaves
\* the retry loop when the context is done or the drain signal is closed
\* (poll then returns), or when RegisterRunnerQueue answers ok or Conflict
CreateQueue(q, res) ==
    /\ ~panicked
    /\ pc[q] = "creating"
    /\ IF CtxErr(q) \/ drain[q]
       THEN /\ IncreaseActualQueueCount
            /\ pc' = [pc EXCEPT ![q] = "aborting"]
            /\ UNCHANGED <<registered, registerCalls, qmDelay, faults>>
       ELSE IF res = "error"
       THEN \* Backoff() and continue
            /\ faults < faultLimit
            /\ faults' = faults + 1
            /\ registerCalls' = [registerCalls EXCEPT ![q] = @ + 1]
            /\ qmDelay' = BackoffDelay(qmDelay)
            /\ UNCHANGED <<nActualQueueCount, lastScaleEvent, pc, registered>>
       ELSE /\ IncreaseActualQueueCount
            /\ registerCalls' = [registerCalls EXCEPT ![q] = @ + 1]
            /\ registered' = [registered EXCEPT ![q] = TRUE]
            /\ qmDelay' = IF res = "ok" THEN RecoverDelay(qmDelay) ELSE qmDelay
            /\ pc' = [pc EXCEPT ![q] = "polling"]
            /\ UNCHANGED faults
    /\ UNCHANGED <<clock, statsVars, queues, nExpectedQueueCount, ctlVars, nextId,
                   queueVars, rpcVars, histVars, panicked, updateCalled, opLog, batchDelay, taskVars,
                   waitVars>>

\* a polling loop that does not look at the context
PollLoop_IgnoreCtx(q) ==
    /\ ~panicked
    /\ pc[q] = "polling"
    /\ \/ drain[q] /\ pc' = [pc EXCEPT ![q] = "marking"]
       \/ ~drain[q] /\ pc' = [pc EXCEPT ![q] = "inPoll"]
    /\ UNCHANGED <<clock, statsVars, scaleVars, ctlVars, nextId,
                   queueVars, rpcVars, histVars, panicked, opVars, batchDelay, taskVars, waitVars>>

\* a polling loop that goes to the drain loop without markAsDraining
PollLoop_SkipMark(q) ==
    /\ ~panicked
    /\ pc[q] = "polling"
    /\ \/ CtxErr(q) /\ pc' = [pc EXCEPT ![q] = "deleting"]
       \/ drain[q] /\ pc' = [pc EXCEPT ![q] = "draining"]
       \/ ~CtxErr(q) /\ ~drain[q] /\ pc' = [pc EXCEPT ![q] = "inPoll"]
    /\ UNCHANGED <<clock, statsVars, scaleVars, ctlVars, nextId,
                   queueVars, rpcVars, histVars, panicked, opVars, batchDelay, taskVars, waitVars>>

\* top of the polling loop of poll: leave on a done context, go on to the
\* drain phase on a closed drain signal, otherwise start doPoll
PollLoop(q) ==
    /\ ~panicked
    /\ pc[q] = "polling"
    /\ \/ CtxErr(q) /\ pc' = [pc EXCEPT ![q] = "deleting"]
       \/ drain[q] /\ pc' = [pc EXCEPT ![q] = "marking"]
       \/ ~CtxErr(q) /\ ~drain[q] /\ pc' = [pc EXCEPT ![q] = "inPoll"]
    /\ UNCHANGED <<clock, statsVars, scaleVars, ctlVars, nextId,
                   queueVars, rpcVars, histVars, panicked, opVars, batchDelay, taskVars, waitVars>>

\* handleQueueNotFound that forgets p.nExpectedQueueCount++ for the replacement
HandleQueueNotFound_NoReincrement(q) ==
    /\ skipDelete' = [skipDelete EXCEPT ![q] = TRUE]
    /\ IF draining[q] \/ CtxErr(q) \/ nExpectedQueueCount = 0 \/ Index(queues, q) = 0
       THEN /\ pc' = [pc EXCEPT ![q] = "deleting"]
            /\ UNCHANGED <<queues, nExpectedQueueCount, nextId>>
       ELSE \E ok \in KeyGenResults :
            IF ok
            THEN /\ CanCreate(1)
                 /\ queues' = Append(RemoveAt(queues, Index(queues, q)), nextId)
                 /\ nExpectedQueueCount' = nExpectedQueueCount - 1
                 /\ nextId' = nextId + 1
                 /\ pc' = [pc EXCEPT ![q] = "deleting", ![nextId] = "creating"]
            ELSE /\ queues' = RemoveAt(queues, Index(queues, q))
                 /\ nExpectedQueueCount' = nExpectedQueueCount - 1
                 /\ pc' = [pc EXCEPT ![q] = "deleting"]
                 /\ UNCHANGED nextId

\* handleQueueNotFound that replaces the queue of a draining worker, also
\* after drainAll
HandleQueueNotFound_ReplaceInDrain(q) ==
    /\ skipDelete' = [skipDelete EXCEPT ![q] = TRUE]
    /\ IF CtxErr(q) \/ (Index(queues, q) = 0 /\ ~shutdownCalled)
       THEN /\ pc' = [pc EXCEPT ![q] = "deleting"]
            /\ UNCHANGED <<queues, nExpectedQueueCount, nextId>>
       ELSE /\ CanCreate(1)
            /\ queues' = Append(SelectSeq(queues, LAMBDA x : x # q), nextId)
            /\ nExpectedQueueCount' = Len(queues')
            /\ nextId' = nextId + 1
            /\ pc' = [pc EXCEPT ![q] = "deleting", ![nextId] = "creating"]

\* handleQueueNotFound that does not look at qi.ctx.Err()
HandleQueueNotFound_IgnoreCtx(q) ==
    /\ skipDelete' = [skipDelete EXCEPT ![q] = TRUE]
    /\ IF draining[q] \/ nExpectedQueueCount = 0 \/ Index(queues, q) = 0
       THEN /\ pc' = [pc EXCEPT ![q] = "deleting"]
            /\ UNCHANGED <<queues, nExpectedQueueCount, nextId>>
       ELSE /\ CanCreate(1)
            /\ queues' = Append(RemoveAt(queues, Index(queues, q)), nextId)
            /\ nExpectedQueueCount' = (nExpectedQueueCount - 1) + 1
            /\ nextId' = nextId + 1
            /\ pc' = [pc EXCEPT ![q] = "deleting", ![nextId] = "creating"]

\* handleQueueNotFound, followed by the return of doPoll with stop = true
HandleQueueNotFound(q) ==
    /\ skipDelete' = [skipDelete EXCEPT ![q] = TRUE]
    /\ IF draining[q] \/ CtxErr(q) \/ nExpectedQueueCount = 0 \/ Index(queues, q) = 0
       THEN /\ pc' = [pc EXCEPT ![q] = "deleting"]
            /\ UNCHANGED <<queues, nExpectedQueueCount, nextId>>
       ELSE \E ok \in KeyGenResults :
            IF ok
            THEN /\ CanCreate(1)
                 /\ queues' = Append(RemoveAt(queues, Index(queues, q)), nextId)
                 /\ nExpectedQueueCount' = (nExpectedQueueCount - 1) + 1
                 /\ nextId' = nextId + 1
                 /\ pc' = [pc EXCEPT ![q] = "deleting", ![nextId] = "creating"]
            ELSE /\ queues' = RemoveAt(queues, Index(queues, q))
                 /\ nExpectedQueueCount' = nExpectedQueueCount - 1
                 /\ pc' = [pc EXCEPT ![q] = "deleting"]
                 /\ UNCHANGED nextId

\* go p.processMessage(msg, qi) for each of the n messages of a batch; a run
\* that follows the messages records each envelope, otherwise the tasks end
\* within the step unless message tasks are slow
Spawn(q, n) ==
    IF trackMsgs
    THEN /\ nextMsg + n - 1 <= MaxMsgs
         /\ \E envs \in [1..n -> Deliveries(q)] :
                msgs' = [m \in MsgIds |->
                            IF m >= nextMsg /\ m < nextMsg + n
                            THEN Received(q, m, envs[m - nextMsg + 1])
                            ELSE msgs[m]]
         /\ nextMsg' = nextMsg + n
         /\ UNCHANGED <<busy, agentJobs>>
    ELSE /\ busy' = [busy EXCEPT ![q] = @ \/ (slowHandlers /\ n > 0)]
         /\ UNCHANGED <<msgs, nextMsg, agentJobs>>

\* a Recover() of the batch backoff that leaves the delay as it is
BatchRecover_NoReset == batchDelay' = batchDelay

\* p.batchBackoff.Backoff() and p.batchBackoff.Recover() in doPoll
BatchBackoff == batchDelay' = IF trackBackoff THEN BatchBackoffDelay(batchDelay) ELSE batchDelay
BatchRecover == batchDelay' = IF trackBackoff THEN BatchRecoverDelay(batchDelay) ELSE batchDelay

\* what doPoll does with the answer of GetMessagesBatch; next is where the
\* calling loop goes when doPoll returns stop = false
DoPoll(q, res, next) ==
    IF res.kind = "NotFound"
    THEN /\ HandleQueueNotFound(q)
         /\ UNCHANGED <<statsVars, taskVars, batchDelay>>
    ELSE IF res.kind = "Error"
    THEN /\ pc' = [pc EXCEPT ![q] = next]
         /\ BatchBackoff
         /\ UNCHANGED <<statsVars, queues, nExpectedQueueCount, nextId, skipDelete, taskVars>>
    ELSE /\ nBatches < batchLimit
         /\ AddStats(res.n)
         /\ IF res.n = 0 THEN BatchBackoff ELSE BatchRecover
         /\ Spawn(q, res.n)
         /\ pc' = [pc EXCEPT ![q] = next]
         /\ UNCHANGED <<queues, nExpectedQueueCount, nextId, skipDelete>>

\* GetMessagesBatch returns to a worker of the polling phase
PollReturn(q, res) ==
    /\ ~panicked
    /\ pc[q] = "inPoll"
    /\ DoPoll(q, res, "polling")
    /\ UNCHANGED <<clock, nActualQueueCount, lastScaleEvent, ctlVars, drain, draining,
                   cancelled, startDrain, rpcVars, histVars, panicked, opVars, waitVars>>

\* answers of the coordinator to one attempt of markAsDraining or deleteQueue:
\* GetRunnerQueue fails, or it answers (or the record is cached) and the
\* UpdateRunnerQueue / DeleteRunnerQueue call fails, conflicts or succeeds
Answers == {"getErr", "err", "conflict", "ok"}

\* j failed GetRunnerQueue calls in a row
GetErrs(j) == [i \in 1..j |-> "getErr"]

\* numbers of failed GetRunnerQueue calls and of failed calls on the record
\* the coordinator answers with before its first success
FaultCounts == {p \in (0..maxRetries) \X (0..maxRetries) : p[1] + p[2] <= maxRetries}

\* what the coordinator answers to the attempts of one run of the retry
\* loop, up to its first success: GetRunnerQueue is called only while the
\* loop has no record; the empty script is the run whose first backoff wait
\* fails
Scripts ==
    {<<>>} \cup UNION {
        {GetErrs(p[1]) \o mid \o <<"ok">> : mid \in [1..p[2] -> {"err", "conflict"}]}
        : p \in FaultCounts}

\* failed answers in a script: all but the final ok
Faults(s) == IF s = <<>> THEN 0 ELSE Len(s) - 1

\* the scripts the run of a worker can meet: the empty one when qi.ctx is
\* done, otherwise those whose failed answers the coordinator has left
ScriptsFor(q) ==
    IF CtxErr(q) THEN {<<>>}
    ELSE IF faults >= faultLimit THEN {<<"ok">>}
    ELSE {s \in Scripts : s # <<>> /\ Faults(s) <= faultLimit - faults}

\* state of the retry loop before its first attempt
LoopStart(d) ==
    [cached |-> 0, gets |-> 0, calls |-> 0, conflicts |-> 0, sent |-> 0, ok |-> FALSE, delay |-> d]

\* GetRunnerQueue answered: the record (version 1) is cached
OnGet(st) == [st EXCEPT !.gets = @ + 1, !.cached = 1]

\* a Conflict that drops the cached record instead of taking the one it carries
OnConflict_Forget(st) ==
    [st EXCEPT !.cached = 0, !.conflicts = @ + 1, !.delay = BackoffDelay(@)]

\* Conflict: queue = conflictErr.Current (the server's record, a later
\* version than the one sent), then Backoff()
OnConflict(st) ==
    [st EXCEPT !.cached = st.sent + 1, !.conflicts = @ + 1, !.delay = BackoffDelay(@)]

\* the loop from attempt i on, without the bound of maxRetries attempts
RECURSIVE RetryFrom_Unbounded(_, _, _)
RetryFrom_Unbounded(script, i, st) ==
    IF i > Len(script)
    THEN st
    ELSE IF st.cached = 0 /\ script[i] = "getErr"
    THEN RetryFrom_Unbounded(script, i + 1, [st EXCEPT !.gets = @ + 1, !.delay = BackoffDelay(@)])
    ELSE LET got == IF st.cached = 0 THEN OnGet(st) ELSE st
             called == [got EXCEPT !.calls = @ + 1, !.sent = got.cached]
         IN  IF script[i] = "ok"
             THEN [called EXCEPT !.ok = TRUE, !.delay = RecoverDelay(@)]
             ELSE IF script[i] = "conflict"
             THEN RetryFrom_Unbounded(script, i + 1, OnConflict(called))
             ELSE RetryFrom_Unbounded(script, i + 1, [called EXCEPT !.delay = BackoffDelay(@)])

\* the loop of markAsDraining and of deleteQueue from attempt i on
RECURSIVE RetryFrom(_, _, _)
RetryFrom(script, i, st) ==
    IF i > maxRetries \/ i > Len(script)
    THEN st
    ELSE IF st.cached = 0 /\ script[i] = "getErr"
    THEN RetryFrom(script, i + 1, [st EXCEPT !.gets = @ + 1, !.delay = BackoffDelay(@)])
    ELSE LET got == IF st.cached = 0 THEN OnGet(st) ELSE st
             called == [got EXCEPT !.calls = @ + 1, !.sent = got.cached]
         IN  IF script[i] = "ok"
             THEN [called EXCEPT !.ok = TRUE, !.delay = RecoverDelay(@)]
             ELSE IF script[i] = "conflict"
             THEN RetryFrom(script, i + 1, OnConflict(called))
             ELSE RetryFrom(script, i + 1, [called EXCEPT !.delay = BackoffDelay(@)])

\* one run of the loop against the answers of script
RetryLoop(script, d) == RetryFrom(script, 1, LoopStart(d))

\* what a run leaves in opLog
OpRecord(kind, r) ==
    [kind |-> kind, gets |-> r.gets, calls |-> r.calls,
     conflicts |-> r.conflicts, sent |-> r.sent, ok |-> r.ok]

\* markAsDraining, the worker's own signalDrain and startDrain := time.Now()
MarkAsDraining(q, script) ==
    /\ ~panicked
    /\ pc[q] = "marking"
    /\ script \in ScriptsFor(q)
    /\ LET r == RetryLoop(script, qmDelay)
       IN  /\ opLog' = [opLog EXCEPT ![q] = OpRecord("mark", r)]
           /\ qmDelay' = r.delay
           /\ faults' = faults + Faults(script)
           /\ updateCalled' = [updateCalled EXCEPT ![q] = @ \/ r.calls > 0]
    /\ SignalDrainUnlocked(q)
    /\ startDrain' = IF panicked' THEN startDrain ELSE [startDrain EXCEPT ![q] = clock]
    /\ pc' = IF panicked' THEN pc ELSE [pc EXCEPT ![q] = "draining"]
    /\ UNCHANGED <<clock, statsVars, scaleVars, ctlVars, nextId, skipDelete,
                   cancelled, rpcVars, histVars, registered, registerCalls, batchDelay,
                   taskVars, waitVars>>

\* top of the drain loop of poll
DrainLoop(q) ==
    /\ ~panicked
    /\ pc[q] = "draining"
    /\ IF CtxErr(q)
       THEN pc' = [pc EXCEPT ![q] = "deleting"]
       ELSE pc' = [pc EXCEPT ![q] = "inDrainPoll"]
    /\ UNCHANGED <<clock, statsVars, scaleVars, ctlVars, nextId,
                   queueVars, rpcVars, histVars, panicked, opVars, batchDelay, taskVars, waitVars>>

\* n of doPoll: the size of the batch, 0 after an error
BatchLen(res) == IF res.kind = "batch" THEN res.n ELSE 0

\* a drain loop that ends on its first empty poll, whatever the time
DrainDone_NoGrace(q, res) == BatchLen(res) = 0

\* the drain loop ends on an empty poll once the grace has elapsed
DrainDone(q, res) == BatchLen(res) = 0 /\ Sub(clock, startDrain[q]) >= DrainGrace

\* a drain phase whose polls do not feed the stats
DrainPollReturn_NoStats(q, res) ==
    /\ ~panicked
    /\ pc[q] = "inDrainPoll"
    /\ IF res.kind = "NotFound"
       THEN HandleQueueNotFound(q) /\ UNCHANGED batchDelay
       ELSE /\ pc' = [pc EXCEPT ![q] = IF DrainDone(q, res) THEN "deleting" ELSE "draining"]
            /\ IF BatchLen(res) = 0 THEN BatchBackoff ELSE BatchRecover
            /\ UNCHANGED <<queues, nExpectedQueueCount, nextId, skipDelete>>
    /\ Spawn(q, BatchLen(res))
    /\ UNCHANGED <<clock, statsVars, nActualQueueCount, lastScaleEvent, ctlVars, drain,
                   draining, cancelled, startDrain, rpcVars, histVars, panicked, opVars, waitVars>>

\* GetMessagesBatch returns to a worker of the drain phase
DrainPollReturn(q, res) ==
    /\ ~panicked
    /\ pc[q] = "inDrainPoll"
    /\ DoPoll(q, res, IF DrainDone(q, res) THEN "deleting" ELSE "draining")
    /\ UNCHANGED <<clock, nActualQueueCount, lastScaleEvent, ctlVars, drain, draining,
                   cancelled, startDrain, rpcVars, histVars, panicked, opVars, waitVars>>

\* deleteQueue: no call when the backoff wait fails on a done context,
\* otherwise the retry loop over GetRunnerQueue and DeleteRunnerQueue
DeleteQueue(q, script) ==
    /\ script \in ScriptsFor(q)
    /\ LET r == RetryLoop(script, qmDelay)
       IN  /\ opLog' = [opLog EXCEPT ![q] = OpRecord("delete", r)]
           /\ qmDelay' = r.delay
           /\ faults' = faults + Faults(script)
           /\ getForDelete' = [getForDelete EXCEPT ![q] = @ \/ r.gets > 0]
           /\ deleteCalls' = [deleteCalls EXCEPT ![q] = @ \/ r.calls > 0]

\* a deferred deleteQueue that does not look at qi.skipDelete
DeleteQueueIfNeeded_Always(q, script) == DeleteQueue(q, script)

\* deleteQueueIfNeeded
DeleteQueueIfNeeded(q, script) ==
    IF skipDelete[q]
    THEN script = <<>> /\ UNCHANGED <<rpcVars, opLog, qmDelay, faults>>
    ELSE DeleteQueue(q, script)

\* a return of poll after a failed createQueue that skips the decrement
PollAbort_NoDecrement(q) ==
    /\ ~panicked
    /\ pc[q] = "aborting"
    /\ cancelled' = [cancelled EXCEPT ![q] = TRUE]
    /\ pc' = [pc EXCEPT ![q] = "done"]
    /\ UNCHANGED <<clock, statsVars, scaleVars, ctlVars, nextId,
                   drain, draining, skipDelete, startDrain, rpcVars, histVars, panicked,
                   opVars, batchDelay, taskVars, waitVars>>

\* return of poll after a failed createQueue: the deferred
\* decreaseActualQueueCount and qi.cancel
PollAbort(q) ==
    /\ ~panicked
    /\ pc[q] = "aborting"
    /\ DecreaseActualQueueCount
    /\ cancelled' = [cancelled EXCEPT ![q] = TRUE]
    /\ pc' = [pc EXCEPT ![q] = "done"]
    /\ UNCHANGED <<clock, statsVars, queues, nExpectedQueueCount, ctlVars, nextId,
                   drain, draining, skipDelete, startDrain, rpcVars, histVars, panicked,
                   opVars, batchDelay, taskVars, waitVars>>

\* return of poll once the queue was created: the deferred
\* deleteQueueIfNeeded, decreaseActualQueueCount and qi.cancel, in that order
PollExit(q, script) ==
    /\ ~panicked
    /\ pc[q] = "deleting"
    /\ DeleteQueueIfNeeded(q, script)
    /\ DecreaseActualQueueCount
    /\ cancelled' = [cancelled EXCEPT ![q] = TRUE]
    /\ startDrain' = [startDrain EXCEPT ![q] = ZeroTime]
    /\ pc' = [pc EXCEPT ![q] = "done"]
    /\ UNCHANGED <<clock, statsVars, queues, nExpectedQueueCount, ctlVars, nextId,
                   drain, draining, skipDelete, histVars, panicked, registered,
                   registerCalls, updateCalled, batchDelay, taskVars, waitVars>>

\* ------------------------------------------------------------- supervisor
\* drainAll that signals the workers but leaves them in p.queues
DrainAll_KeepQueues ==
    /\ ResetStats
    /\ nExpectedQueueCount' = 0
    /\ SignalDrain(Range(queues))
    /\ UNCHANGED queues

\* drainAll
DrainAll ==
    /\ ResetStats
    /\ nExpectedQueueCount' = 0
    /\ SignalDrain(Range(queues))
    /\ queues' = <<>>

\* ShutdownContext up to its wait: drainAll, then cancelScale; d is the time
\* the caller's ctx leaves (ShutdownTimeout(d)), NoDeadline for a ctx without one
ShutdownContext(d) ==
    /\ ~panicked
    /\ ~shutdownCalled
    /\ DrainAll
    /\ scaleCancelled' = TRUE
    /\ shutdownCalled' = TRUE
    /\ shutdownAt' = clock
    /\ shutdownDeadline' = IF d = NoDeadline THEN NoDeadline ELSE clock + d
    /\ shutdownQueues' = Range(queues)
    /\ UNCHANGED <<clock, nActualQueueCount, lastScaleEvent, cgCancelled, limitVars, lockVars,
                   jobVars, nextId, pc,
                   skipDelete, cancelled, startDrain, rpcVars, histVars, panicked,
                   opVars, batchDelay, taskVars, shutdownReturn>>

\* every task of the group has called cg.Done: the workers, the message tasks
\* and the scaler, which leaves its loop once scaleCtx is cancelled
AllDone ==
    /\ scaleCancelled \/ cgCancelled
    /\ \A q \in Ids : ~Running(q) /\ ~busy[q]
    /\ \A m \in DOMAIN msgs : msgs[m].st # "received"

\* return p.cg.WaitContext(ctx): nil once every task is done, the error of
\* ctx once ctx is done
ShutdownReturn(res) ==
    /\ ~panicked
    /\ shutdownCalled
    /\ shutdownReturn = "none"
    /\ \/ res = "nil" /\ AllDone
       \/ res = "deadline" /\ WaitExpired
    /\ shutdownReturn' = res
    /\ UNCHANGED <<clock, statsVars, scaleVars, ctlVars, nextId, pc, queueVars, rpcVars,
                   histVars, panicked, opVars, batchDelay, taskVars, shutdownAt,
                   shutdownDeadline, shutdownQueues>>

\* the last running processMessage task of a queue returns
HandlerDone(q) ==
    /\ ~panicked
    /\ busy[q]
    /\ busy' = [busy EXCEPT ![q] = FALSE]
    /\ UNCHANGED <<clock, statsVars, scaleVars, ctlVars, nextId, pc, queueVars, rpcVars,
                   histVars, panicked, opVars, batchDelay, msgs, nextMsg, agentJobs, waitVars>>

\* Close: the task group cancels its context
Close ==
    /\ ~panicked
    /\ ~cgCancelled
    /\ cgCancelled' = TRUE
    /\ UNCHANGED <<clock, statsVars, scaleVars, scaleCancelled, shutdownCalled, limitVars,
                   lockVars, jobVars, nextId,
                   pc, queueVars, rpcVars, histVars, panicked, opVars, batchDelay, taskVars, waitVars>>

\* what happens to a processMessage task on its way: the handler fails,
\* json.Marshal, ecies.Wrap or WriteResponse returns an error
Handlings == [failed : BOOLEAN, marshal : BOOLEAN, wrap : BOOLEAN, write : BOOLEAN]

\* the task returns before it calls WriteResponse
Dropped(m, why) == msgs' = [msgs EXCEPT ![m].st = "done", ![m].result = why]

\* a failed WriteResponse is sent again
WriteResponse_Retry(m, resp, req, ok) ==
    msgs' = [msgs EXCEPT ![m].st = "done", ![m].resp = resp,
                         ![m].writes = @ + (IF ok THEN 1 ELSE 2), ![m].posted = req,
                         ![m].result = IF ok THEN "written" ELSE "writeFailed"]

\* p.client.WriteResponse(qi.ctx, req): one call, whose error is only logged
WriteResponse(m, resp, req, ok) ==
    msgs' = [msgs EXCEPT ![m].st = "done", ![m].resp = resp,
                         ![m].writes = @ + 1, ![m].posted = req,
                         ![m].result = IF ok THEN "written" ELSE "writeFailed"]

\* the reply is sealed with the key of the queue
EncryptedResp_QueueKey(resp, rec) == Wrap(Marshal(resp), PubOf(QueuePriv(rec.queue)))

\* encryptedResp: the serialized reply wrapped with the key parsed from the
\* envelope of the message
EncryptedResp(resp, rec) == Wrap(Marshal(resp), PemToPubKey(rec.env.callerPublicKey).key)

\* the request names the caller and the next message id
ResponseRequest_Shifted(rec, payload) ==
    WriteRequest(rec.queue, rec.env.messageId + 1, rec.env.callerId, payload)

\* the p42.WriteResponseRequest processMessage builds for a message
ResponseRequest(rec, payload) ==
    WriteRequest(rec.queue, rec.env.messageId, rec.env.callerId, payload)

\* the body of processMessage for message m, from the parse of the caller
\* key to the WriteResponse call
Task(m, h) ==
    LET rec == msgs[m]
        callerPub == PemToPubKey(rec.env.callerPublicKey)
        decrypted == Unwrap(rec.env.payload, QueuePriv(rec.queue))
        parsedMsg == ParseMessage(decrypted.data)
        resp == Process(parsedMsg.msg, h.failed)
    IN  IF ~callerPub.ok THEN Dropped(m, "badKey")
        ELSE IF ~decrypted.ok THEN Dropped(m, "badSecret")
        ELSE IF ~parsedMsg.ok THEN Dropped(m, "badMessage")
        ELSE IF ~h.marshal THEN Dropped(m, "badReply")
        ELSE IF ~h.wrap THEN Dropped(m, "badWrap")
        ELSE WriteResponse(m, resp, ResponseRequest(rec, EncryptedResp(resp, rec)), h.write)

\* Process of pollerInvokeAgentRequest on darwin: unless the validation of
\* the request fails, go req.invokeAsync(ctx, containerID) starts the agent
\* job of the message before the reply is returned
InvokeAsync(m, h) ==
    agentJobs' = IF msgs'[m].result \in {"badKey", "badSecret", "badMessage"} \/ h.failed
            THEN agentJobs ELSE [agentJobs EXCEPT ![m] = "launched"]

\* a task whose handler failed calls Backoff() on the batch backoff
ProcessMessage_Backoff(m, h) ==
    /\ ~panicked
    /\ msgs[m].st = "received"
    /\ Task(m, h)
    /\ InvokeAsync(m, h)
    /\ batchDelay' = IF msgs'[m].resp.errorMessage
                     THEN BatchBackoffDelay(batchDelay) ELSE batchDelay
    /\ UNCHANGED <<clock, statsVars, scaleVars, ctlVars, nextId, pc, queueVars, rpcVars,
                   histVars, panicked, opVars, busy, nextMsg, waitVars>>

\* go p.processMessage(msg, qi): the task of message m runs to its end
ProcessMessage(m, h) ==
    /\ ~panicked
    /\ msgs[m].st = "received"
    /\ Task(m, h)
    /\ InvokeAsync(m, h)
    /\ UNCHANGED <<clock, statsVars, scaleVars, ctlVars, nextId, pc, queueVars, rpcVars,
                   histVars, panicked, opVars, batchDelay, busy, nextMsg, waitVars>>

Next ==
    \/ Advance
    \/ DoScale
    \/ \E q \in Ids : \E res \in RegisterResults : CreateQueue(q, res)
    \/ \E q \in Ids : PollLoop(q)
    \/ \E q \in Ids : \E res \in PollResults : PollReturn(q, res)
    \/ \E q \in Ids : \E script \in ScriptsFor(q) : MarkAsDraining(q, script)
    \/ \E q \in Ids : DrainLoop(q)
    \/ \E q \in Ids : \E res \in PollResults : DrainPollReturn(q, res)
    \/ \E q \in Ids : PollAbort(q)
    \/ \E q \in Ids : \E script \in ScriptsFor(q) \cup {<<>>} : PollExit(q, script)
    \/ ShutdownContext(NoDeadline)
    \/ Close

Spec == Init /\ [][Next]_vars

SpecRpc == InitRpc /\ [][Next]_vars

SpecKeyFail == InitKeyFail /\ [][Next]_vars

\* one worker from its creation to its exit, no scaler tick and no Close
NextBackoff ==
    \/ \E q \in Ids : \E res \in RegisterResults : CreateQueue(q, res)
    \/ \E q \in Ids : PollLoop(q)
    \/ \E q \in Ids : \E res \in PollResults : PollReturn(q, res)
    \/ \E q \in Ids : \E script \in ScriptsFor(q) : MarkAsDraining(q, script)
    \/ \E q \in Ids : DrainLoop(q)
    \/ \E q \in Ids : \E res \in PollResults : DrainPollReturn(q, res)
    \/ \E q \in Ids : PollAbort(q)
    \/ \E q \in Ids : \E script \in ScriptsFor(q) \cup {<<>>} : PollExit(q, script)
    \/ ShutdownContext(NoDeadline)

SpecBackoff == InitBackoff /\ [][NextBackoff]_vars

\* one worker whose messages are followed from delivery to reply
NextMsg ==
    \/ \E q \in Ids : \E res \in RegisterResults : CreateQueue(q, res)
    \/ \E q \in Ids : PollLoop(q)
    \/ \E q \in Ids : \E res \in MsgPollResults : PollReturn(q, res)
    \/ \E m \in MsgIds : \E h \in Handlings : ProcessMessage(m, h)

SpecMsg == InitMsg /\ [][NextMsg]_vars

\* the timeouts a caller gives to ShutdownTimeout
ShutdownTimeouts == {k * TimeStep : k \in 0..MaxTimeoutSteps}

\* the supervisor with a caller that waits for the return of ShutdownTimeout
NextShutdown ==
    \/ Advance
    \/ DoScale
    \/ \E q \in Ids : \E res \in RegisterResults : CreateQueue(q, res)
    \/ \E q \in Ids : PollLoop(q)
    \/ \E q \in Ids : \E res \in PollResults : PollReturn(q, res)
    \/ \E q \in Ids : \E script \in ScriptsFor(q) : MarkAsDraining(q, script)
    \/ \E q \in Ids : DrainLoop(q)
    \/ \E q \in Ids : \E res \in PollResults : DrainPollReturn(q, res)
    \/ \E q \in Ids : PollAbort(q)
    \/ \E q \in Ids : \E script \in ScriptsFor(q) \cup {<<>>} : PollExit(q, script)
    \/ \E q \in Ids : HandlerDone(q)
    \/ \E d \in ShutdownTimeouts : ShutdownContext(d)
    \/ \E res \in {"nil", "deadline"} : ShutdownReturn(res)
    \/ Close

SpecShutdown == InitShutdown /\ [][NextShutdown]_vars

\* the drain loop of worker q ends: a poll returns no message after the grace
DrainExit(q) ==
    \E res \in PollResults : DrainPollReturn(q, res) /\ DrainDone(q, res)

\* the supervisor that is never closed, over unbounded time
NextLive ==
    \/ Advance
    \/ AdvanceLate
    \/ DoScale
    \/ \E q \in Ids : \E res \in RegisterResults : CreateQueue(q, res)
    \/ \E q \in Ids : PollLoop(q)
    \/ \E q \in Ids : \E res \in PollResults : PollReturn(q, res)
    \/ \E q \in Ids : \E script \in ScriptsFor(q) : MarkAsDraining(q, script)
    \/ \E q \in Ids : DrainLoop(q)
    \/ \E q \in Ids : \E res \in PollResults : DrainPollReturn(q, res)
    \/ \E q \in Ids : PollAbort(q)
    \/ \E q \in Ids : \E script \in ScriptsFor(q) \cup {<<>>} : PollExit(q, script)
    \/ ShutdownContext(NoDeadline)

\* time passes, every goroutine that can take a step eventually takes it,
\* every long-poll eventually returns, RegisterRunnerQueue eventually
\* succeeds, and a worker that keeps polling after its grace eventually gets a
\* poll without messages
FairLive ==
    /\ WF_vars(Advance \/ AdvanceLate)
    /\ \A q \in Ids :
          /\ WF_vars(\E res \in {"ok", "conflict"} : CreateQueue(q, res))
          /\ WF_vars(PollLoop(q))
          /\ WF_vars(\E res \in PollResults : PollReturn(q, res))
          /\ WF_vars(\E script \in ScriptsFor(q) : MarkAsDraining(q, script))
          /\ WF_vars(DrainLoop(q))
          /\ SF_vars(DrainExit(q))
          /\ WF_vars(PollAbort(q))
          /\ WF_vars(\E script \in ScriptsFor(q) \cup {<<>>} : PollExit(q, script))

SpecLive == InitLive /\ [][NextLive]_vars /\ FairLive

\* the supervisor that is shut down or closed at any moment
NextClose ==
    \/ Advance
    \/ DoScale
    \/ \E q \in Ids : \E res \in RegisterResults : CreateQueue(q, res)
    \/ \E q \in Ids : PollLoop(q)
    \/ \E q \in Ids : \E res \in PollResults : PollReturn(q, res)
    \/ \E q \in Ids : \E script \in ScriptsFor(q) : MarkAsDraining(q, script)
    \/ \E q \in Ids : DrainLoop(q)
    \/ \E q \in Ids : \E res \in PollResults : DrainPollReturn(q, res)
    \/ \E q \in Ids : PollAbort(q)
    \/ \E q \in Ids : \E script \in ScriptsFor(q) \cup {<<>>} : PollExit(q, script)
    \/ \E q \in Ids : HandlerDone(q)
    \/ ShutdownContext(NoDeadline)
    \/ Close

\* every goroutine that can take a step eventually takes it, a call whose
\* context is cancelled returns, and a message task ends
FairClose ==
    \A q \in Ids :
        /\ WF_vars(\E res \in RegisterResults : CreateQueue(q, res))
        /\ WF_vars(PollLoop(q))
        /\ WF_vars(\E res \in PollResults : PollReturn(q, res))
        /\ WF_vars(\E script \in ScriptsFor(q) : MarkAsDraining(q, script))
        /\ WF_vars(DrainLoop(q))
        /\ WF_vars(\E res \in PollResults : DrainPollReturn(q, res))
        /\ WF_vars(PollAbort(q))
        /\ WF_vars(\E script \in ScriptsFor(q) \cup {<<>>} : PollExit(q, script))
        /\ WF_vars(HandlerDone(q))

SpecClose == InitClose /\ [][NextClose]_vars /\ FairClose

\* the supervisor while it is neither shut down nor closed
NextScale ==
    \/ Advance
    \/ DoScale
    \/ \E q \in Ids : \E res \in RegisterResults : CreateQueue(q, res)
    \/ \E q \in Ids : PollLoop(q)
    \/ \E q \in Ids : \E res \in PollResults : PollReturn(q, res)
    \/ \E q \in Ids : \E script \in ScriptsFor(q) : MarkAsDraining(q, script)
    \/ \E q \in Ids : DrainLoop(q)
    \/ \E q \in Ids : \E res \in PollResults : DrainPollReturn(q, res)
    \/ \E q \in Ids : \E script \in ScriptsFor(q) \cup {<<>>} : PollExit(q, script)

SpecScale == InitScale /\ [][NextScale]_vars

\* ---------------------------------------------------------------- p.mux
\* the statements at which a goroutine waits in I/O: a backoff wait, a
\* coordinator call, a handler
IOPoints ==
    {"qmWait", "register", "batchWait", "getBatch", "markWait", "markGet", "markUpdate",
     "delWait", "delGet", "delete", "handler", "write"}

\* the p.mux.Lock() calls: increaseActualQueueCount after createQueue
\* succeeded or failed, addStats, handleQueueNotFound,
\* decreaseActualQueueCount, doScale, drainAll
LockPoints ==
    {"incLock", "incLockFailed", "statsLock", "nfLock", "decLock", "scaleLock", "drainLock"}

\* handleQueueNotFound registers the replacement queue before it unlocks
HeldOf_RegisterLocked(p) ==
    CASE p = "incLock" -> "incHeld"
      [] p = "incLockFailed" -> "incHeldFailed"
      [] p = "statsLock" -> "statsHeld"
      [] p = "nfLock" -> "register"
      [] p = "decLock" -> "decHeld"
      [] p = "scaleLock" -> "scaleHeld"
      [] p = "drainLock" -> "drainHeld"

\* the section a goroutine is in once its p.mux.Lock() has returned
HeldOf(p) ==
    CASE p = "incLock" -> "incHeld"
      [] p = "incLockFailed" -> "incHeldFailed"
      [] p = "statsLock" -> "statsHeld"
      [] p = "nfLock" -> "nfHeld"
      [] p = "decLock" -> "decHeld"
      [] p = "scaleLock" -> "scaleHeld"
      [] p = "drainLock" -> "drainHeld"

\* the sections: the statements between a p.mux.Lock() and its deferred
\* p.mux.Unlock()
HeldPoints ==
    {"incHeld", "incHeldFailed", "statsHeld", "nfHeld", "decHeld", "scaleHeld", "drainHeld"}

\* where a goroutine goes when the deferred p.mux.Unlock() of its section
\* has run
AfterUnlock(p, dr) ==
    CASE p = "incHeld" -> {"loop"}
      [] p = "incHeldFailed" -> {"decLock"}
      [] p = "statsHeld" -> IF dr THEN {"loop", "delWait"} ELSE {"loop"}
      [] p = "nfHeld" -> {"decLock"}
      [] p = "decHeld" -> {"done"}
      [] p = "scaleHeld" -> {"tick"}
      [] p = "drainHeld" -> {"waitGroup"}

\* where a goroutine that is at neither a Lock() nor in a section goes next:
\* createQueue, the loops of poll, doPoll, markAsDraining, deleteQueue, the
\* tick of scale, the call of ShutdownContext and processMessage
Succ(p, dr) ==
    CASE p = "start" -> {"qmWait", "incLockFailed"}
      [] p = "qmWait" -> {"register", "incLockFailed"}
      [] p = "register" -> {"start", "incLock"}
      [] p = "loop" -> IF dr THEN {"batchWait", "delWait"}
                       ELSE {"batchWait", "markWait", "delWait"}
      [] p = "batchWait" -> {"getBatch", "delWait"}
      [] p = "getBatch" -> {"loop", "nfLock", "statsLock"}
      [] p = "markWait" -> {"markGet", "signal"}
      [] p = "markGet" -> {"markWait", "markUpdate", "signal"}
      [] p = "markUpdate" -> {"markWait", "signal"}
      [] p = "signal" -> {"loop"}
      [] p = "delWait" -> {"delGet", "decLock"}
      [] p = "delGet" -> {"delWait", "delete", "decLock"}
      [] p = "delete" -> {"delWait", "decLock"}
      [] p = "tick" -> {"scaleLock", "done"}
      [] p = "idle" -> {"drainLock"}
      [] p = "handler" -> {"write", "none"}
      [] p = "write" -> {"none"}
      [] OTHER -> {}

\* whether goroutine g is a worker in its drain loop
Draining(g) == g[1] = "worker" /\ inDrain[g[2]]

\* a goroutine moves on outside p.mux; signalDrain of poll runs without it
MuxStep(g) ==
    /\ at[g] \notin LockPoints \cup HeldPoints
    /\ mux # g
    /\ \E n \in Succ(at[g], Draining(g)) : at' = [at EXCEPT ![g] = n]
    /\ inDrain' = IF at[g] = "signal" THEN [inDrain EXCEPT ![g[2]] = TRUE] ELSE inDrain
    /\ UNCHANGED mux

\* p.mux.Lock() returns to goroutine g
MuxLock(g) ==
    /\ at[g] \in LockPoints
    /\ mux = MuxFree
    /\ mux' = g
    /\ at' = [at EXCEPT ![g] = HeldOf(at[g])]
    /\ UNCHANGED inDrain

\* the goroutines a section can start: go p.poll(qi) of scaleUp and of
\* handleQueueNotFound for a worker that does not run yet, and after addStats
\* go p.processMessage for the task of the worker
Spawnable(g) ==
    IF at[g] \in {"scaleHeld", "nfHeld"}
    THEN {h \in {Worker(i) : i \in MuxWorkers} : at[h] = "none"}
    ELSE IF at[g] = "statsHeld"
    THEN {h \in {MsgTask(g[2])} : at[h] = "none"}
    ELSE {}
FirstAt(h) == IF h[1] = "worker" THEN "start" ELSE "handler"

\* the section of goroutine g runs to its end and the deferred
\* p.mux.Unlock() releases the mutex
MuxUnlock(g) ==
    /\ at[g] \in HeldPoints
    /\ mux = g
    /\ mux' = MuxFree
    /\ \E n \in AfterUnlock(at[g], Draining(g)) :
       \E new \in {{}} \cup {{h} : h \in Spawnable(g)} :
           at' = [h \in Procs |-> IF h = g THEN n
                                  ELSE IF h \in new THEN FirstAt(h) ELSE at[h]]
    /\ UNCHANGED inDrain

\* the frame of the steps that follow the goroutines around p.mux
MuxFrame ==
    UNCHANGED <<clock, statsVars, scaleVars, scaleCancelled, cgCancelled, shutdownCalled,
                limitVars, jobVars, nextId, pc, queueVars, rpcVars, histVars, panicked, opVars,
                batchDelay, taskVars, waitVars>>

NextMux ==
    \/ \E g \in Procs : MuxStep(g) /\ MuxFrame
    \/ \E g \in Procs : MuxLock(g) /\ MuxFrame
    \/ \E g \in Procs : MuxUnlock(g) /\ MuxFrame

SpecMux == InitMux /\ [][NextMux]_vars

\* ------------------------------------------------------------------ types
TypeOK ==
    /\ clock \in 0..timeLimit
    /\ nBatches \in 0..batchLimit
    /\ sumBatchPct \in 0..(BatchCap * batchLimit)
    /\ nextId \in 1..(idLimit + 1)
    /\ Range(queues) \subseteq Ids

\* ------------------------------------------------------------- properties
\* the stats window is the one resetStats leaves
StatsReset == nBatches' = 0 /\ sumBatchPct' = 0 /\ measureStart' = clock

\* the scaler goroutine is still ticking
ScalerAlive == ~panicked /\ ~scaleCancelled /\ ~cgCancelled

\* C1: whenever the supervisor mutex is free (every state of the model), the
\* number of queue descriptors in p.queues equals nExpectedQueueCount
C1_WorkersEqualExpected == Len(queues) = nExpectedQueueCount

\* C1 witness: a scale-up, a later scale-down and ShutdownContext have all
\* acted, and the list is empty again
C1_Witness ==
    /\ lastDown # ZeroTime
    /\ nextId > 2
    /\ shutdownCalled
    /\ Len(queues) = 0

\* C2: a scaler tick taken while nExpected != nActual changes nothing: the
\* workers list, the workers, the drain signals, nExpected, lastScaleEvent
\* and the stats window stay as they are (so the worker set changes only on
\* ticks at which nExpected == nActual)
C2_TickWaitsForQuiescence ==
    [][(DoScale /\ nExpectedQueueCount # nActualQueueCount)
        => UNCHANGED <<queues, pc, drain, draining, nExpectedQueueCount,
                       lastScaleEvent, statsVars>>]_vars

\* C2 witness: the scaler is alive, every time gate is open and the window
\* asks for a scale-up, but nExpected != nActual
C2_Witness ==
    /\ ScalerAlive
    /\ nExpectedQueueCount # nActualQueueCount
    /\ Sub(clock, measureStart) >= Minute
    /\ Sub(clock, lastScaleEvent) >= Minute
    /\ nBatches > 0
    /\ sumBatchPct >= UpTenths * nBatches

\* the conditions under which doScale decides to scale down
DownTrigger ==
    /\ nExpectedQueueCount = nActualQueueCount
    /\ Sub(clock, measureStart) >= 2 * Minute
    /\ Sub(clock, lastScaleEvent) >= 2 * Minute
    /\ nBatches > 0
    /\ sumBatchPct <= DownTenths * nBatches

\* C3: a scale-down decision at exactly one worker removes no worker, fires
\* no drain signal and leaves nExpected unchanged, but resets the stats
\* window and sets lastScaleEvent to now; and until ShutdownContext the
\* workers list never has fewer than one entry
C3_NeverBelowOne ==
    /\ [][(DoScale /\ DownTrigger /\ Len(queues) = 1)
           => /\ UNCHANGED <<queues, pc, drain, draining, nExpectedQueueCount>>
              /\ StatsReset
              /\ lastScaleEvent' = clock]_vars
    /\ [](~shutdownCalled => Len(queues) >= 1)

\* C3 witness: the only worker ever created is still polling and a tick has
\* just reset the window and stamped lastScaleEvent after two minutes
C3_Witness ==
    /\ ~shutdownCalled
    /\ nextId = 2
    /\ queues = <<1>>
    /\ pc[1] \in {"polling", "inPoll"}
    /\ clock >= 2 * Minute
    /\ measureStart = clock
    /\ lastScaleEvent = clock
    /\ nBatches = 0

\* the conditions under which doScale decides to scale up
UpTrigger ==
    /\ nExpectedQueueCount = nActualQueueCount
    /\ Sub(clock, measureStart) >= Minute
    /\ Sub(clock, lastScaleEvent) >= Minute
    /\ nBatches > 0
    /\ sumBatchPct >= UpTenths * nBatches

\* C4: a tick taken when the scale-up conditions hold doubles the worker
\* count: it keeps the old entries, appends len(workers) fresh descriptors,
\* spawns one worker on each, doubles nExpected and resets the stats window
C4_ScaleUpDoubles ==
    [][(DoScale /\ UpTrigger)
        => /\ Len(queues') = 2 * Len(queues)
           /\ SubSeq(queues', 1, Len(queues)) = queues
           /\ \A i \in (Len(queues) + 1)..Len(queues') :
                  pc[queues'[i]] = "none" /\ pc'[queues'[i]] = "creating"
           /\ Cardinality({q \in Ids : pc[q] # pc'[q]}) = Len(queues)
           /\ nExpectedQueueCount' = 2 * nExpectedQueueCount
           /\ StatsReset]_vars

\* C4 witness: a tick has just doubled two workers to four
C4_Witness ==
    /\ Len(queues) = 4
    /\ nExpectedQueueCount = 4
    /\ nActualQueueCount = 2
    /\ pc[3] = "creating" /\ pc[4] = "creating"
    /\ measureStart = clock
    /\ nBatches = 0

\* C5: a tick taken when the scale-down conditions hold with more than one
\* worker removes exactly the last entry of the list, decrements nExpected by
\* one, fires that worker's drain signal without cancelling its context,
\* resets the stats window and touches no other worker
C5_ScaleDownRemovesLast ==
    [][(DoScale /\ DownTrigger /\ Len(queues) > 1)
        => LET last == queues[Len(queues)]
           IN  /\ queues' = SubSeq(queues, 1, Len(queues) - 1)
               /\ nExpectedQueueCount' = nExpectedQueueCount - 1
               /\ ~drain[last] /\ drain'[last] /\ draining'[last]
               /\ ~(cgCancelled' \/ cancelled'[last])
               /\ StatsReset
               /\ \A q \in Ids \ {last} :
                      drain'[q] = drain[q] /\ draining'[q] = draining[q]
               /\ UNCHANGED <<pc, cancelled, skipDelete, nActualQueueCount>>]_vars

\* C5 witness: a tick has just removed the last of four workers; that worker
\* is signalled, out of the list, still in its polling phase, not cancelled
C5_Witness ==
    /\ lastDown = clock
    /\ Len(queues) = 3
    /\ nExpectedQueueCount = 3
    /\ \E q \in Ids :
           /\ q \notin Range(queues)
           /\ drain[q] /\ ~cancelled[q]
           /\ pc[q] \in {"polling", "inPoll"}

\* C6: no tick adds or removes a worker before measureStart + 60 s and no
\* tick removes one before measureStart + 120 s
C6_WarmupGates ==
    [][DoScale
        => /\ (queues' # queues => clock - measureStart >= Minute)
           /\ (Len(queues') < Len(queues) => clock - measureStart >= 2 * Minute)]_vars

\* C6 witness: the first scale-up taken exactly 60 s into the first window,
\* after samples have been recorded from the start
C6_Witness ==
    /\ lastChange = Minute
    /\ clock = Minute
    /\ measureStart = Minute
    /\ Len(queues) = 2
    /\ lastDown = ZeroTime

\* C7: two consecutive ticks that change the worker set are at least 60 s
\* apart, two consecutive scale-downs at least 120 s apart; the first change
\* is not before t = 60 s and the one after it not before t = 120 s
C7_ScaleEventSpacing ==
    [][DoScale
        => /\ (queues' # queues => clock >= Minute)
           /\ (queues' # queues /\ lastChange # ZeroTime
                 => clock - lastChange >= Minute /\ clock >= 2 * Minute)
           /\ (Len(queues') < Len(queues) /\ lastDown # ZeroTime
                 => clock - lastDown >= 2 * Minute)]_vars

\* C7 witness: four workers went down to two by two scale-downs, the second
\* one taken just now
C7_Witness ==
    /\ nextId = 5
    /\ Len(queues) = 2
    /\ lastDown = clock
    /\ lastChange = clock

\* C8: every GetMessagesBatch that returns a batch of N messages adds one
\* to nBatches and N tenths to sumBatchPct, in the polling and in the drain
\* phase alike; a poll that fails adds no sample; 0 <= sumBatchPct <= nBatches
C8_BatchFillAccounting ==
    /\ [][\A q \in Ids : \A res \in PollResults :
            (PollReturn(q, res) \/ DrainPollReturn(q, res))
                => IF res.kind = "batch"
                   THEN /\ nBatches' = nBatches + 1
                        /\ sumBatchPct' = sumBatchPct + res.n
                   ELSE /\ nBatches' = nBatches
                        /\ sumBatchPct' = sumBatchPct]_vars
    /\ [](0 <= sumBatchPct /\ sumBatchPct <= BatchCap * nBatches)

\* C8 witness: after ShutdownContext reset the window, the only worker has
\* recorded two full batches and is in its drain phase
C8_Witness ==
    /\ shutdownCalled
    /\ nextId = 2
    /\ pc[1] \in {"draining", "inDrainPoll"}
    /\ nBatches = 2
    /\ sumBatchPct = 2 * BatchCap

\* the NotFound answer of GetMessagesBatch
NotFound == [kind |-> "NotFound", n |-> 0]

\* C9: NotFound for a worker that is not draining, whose context is not
\* cancelled, while nExpected != 0: nExpected keeps its value, the old
\* descriptor leaves the list, exactly one fresh descriptor is appended in
\* its place with a new worker started on it, and the old worker leaves its
\* loops with skipDelete set
C9_ReplacementProtocol ==
    [][\A q \in Ids :
        ((PollReturn(q, NotFound) \/ DrainPollReturn(q, NotFound))
            /\ ~draining[q] /\ ~CtxErr(q) /\ nExpectedQueueCount # 0)
        => /\ nExpectedQueueCount' = nExpectedQueueCount
           /\ q \in Range(queues)
           /\ q \notin Range(queues')
           /\ Len(queues') = Len(queues)
           /\ LET r == queues'[Len(queues')]
              IN  /\ r \notin Range(queues)
                  /\ Range(queues') = (Range(queues) \ {q}) \cup {r}
                  /\ pc[r] = "none" /\ pc'[r] = "creating"
                  /\ ~drain'[r] /\ ~draining'[r] /\ ~cancelled'[r]
                  /\ \A p \in Ids \ {q, r} : pc'[p] = pc[p]
           /\ pc'[q] = "deleting"
           /\ skipDelete'[q]]_vars

\* C9 witness: the first of two workers was a ghost: its replacement sits at
\* the end of the list with a worker starting on it
C9_Witness ==
    /\ queues = <<2, 3>>
    /\ nExpectedQueueCount = 2
    /\ skipDelete[1]
    /\ pc[1] = "deleting"
    /\ pc[3] = "creating"

\* C10: for a queue whose worker has set skipDelete, no GetRunnerQueue of the
\* delete protocol and no DeleteRunnerQueue is ever issued
C10_NoDeleteOnGhost ==
    \A q \in Ids : skipDelete[q] => ~getForDelete[q] /\ ~deleteCalls[q]

\* C10 witness: a ghost that was signalled to drain has returned from poll,
\* its context cancelled by nothing but its own deferred cancel
C10_Witness ==
    \E q \in Ids :
        /\ skipDelete[q]
        /\ pc[q] = "done"
        /\ draining[q]
        /\ ~cgCancelled

\* ShutdownContext returns in this step
ShutdownReturns == shutdownReturn = "none" /\ shutdownReturn' # "none"

\* what drainAll and cancelScale leave behind, but for the stats
LogicallyShutDown ==
    /\ shutdownDeadline # NoDeadline => clock' <= shutdownDeadline
    /\ nExpectedQueueCount' = 0
    /\ queues' = <<>>
    /\ \A q \in shutdownQueues : drain'[q]
    /\ scaleCancelled'

StartsPoll(q) ==
    /\ pc'[q] \in {"inPoll", "inDrainPoll"}
    /\ pc[q] \notin {"inPoll", "inDrainPoll"}

\* C12 as stated: once ShutdownTimeout has returned, with nil or with a
\* deadline error, and while Close has not been called, no worker issues a
\* new GetMessagesBatch call
C12_NoPollAfterShutdownReturn ==
    [][shutdownReturn # "none" /\ ~cgCancelled => \A q \in Ids : ~StartsPoll(q)]_vars

\* C13 as stated: a worker whose drain signal has fired (by scale-down or by
\* shutdown) issues no GetMessagesBatch call besides the one in flight
C13_NoPollAfterDrainSignal ==
    [][\A q \in Ids : drain[q] => ~StartsPoll(q)]_vars

\* C14 as stated: a worker of the drain phase exits once 30 s have passed and
\* its message tasks are done, whatever the coordinator answers: a drain-phase
\* poll that returns after the grace with no message task left running ends
\* the drain phase
C14_DrainEndsAfterGrace ==
    [][\A q \in Ids :
          /\ pc[q] = "inDrainPoll" /\ pc'[q] # "inDrainPoll"
          /\ Sub(clock, startDrain[q]) >= DrainGrace
          /\ ~busy'[q]
          => pc'[q] = "deleting"]_vars
\* C15: whenever nActual differs from nExpected (a worker was created or
\* told to go), they are equal again later, given that registrations
\* eventually succeed and drained workers eventually get an empty poll after
\* their grace; and if from some point on the worker list and nExpected no
\* longer change (no scale action, replacement or shutdown), then from some
\* point on nActual equals nExpected for ever
C15_ActualConverges ==
    /\ (nActualQueueCount # nExpectedQueueCount) ~> (nActualQueueCount = nExpectedQueueCount)
    /\ <>[][queues' = queues /\ nExpectedQueueCount' = nExpectedQueueCount]_vars
          => <>[](nActualQueueCount = nExpectedQueueCount)

\* C15 witness: after a scale-up and a later scale-down the drained worker
\* has gone and nActual is back at nExpected
C15_Witness ==
    /\ lastDown # ZeroTime
    /\ pc[2] = "done"
    /\ pc[1] \in {"polling", "inPoll"}
    /\ nActualQueueCount = 1 /\ nExpectedQueueCount = 1
\* the workers between the increment of createQueue and the decrement of
\* their return from poll
Counted == {q \in Ids : pc[q] \notin {"none", "creating", "done"}}

\* C16: nActual is the number of workers that have passed the increment of
\* createQueue (registered or aborted) and not yet the decrement of their
\* exit, so each worker counts once, up before down; nActual is never
\* negative and is 0 once every worker has terminated
C16_ActualCountsWorkers ==
    /\ nActualQueueCount = Cardinality(Counted)
    /\ nActualQueueCount >= 0
    /\ (\A q \in Ids : ~Running(q)) => nActualQueueCount = 0

\* C16 witness: every worker has terminated, one of them after it registered
\* and one that was drained before it registered, and nActual is 0
C16_Witness ==
    /\ \A q \in Ids : ~Running(q)
    /\ pc[1] = "done" /\ registered[1]
    /\ pc[2] = "done" /\ ~registered[2] /\ ~cgCancelled
    /\ nActualQueueCount = 0
LeavesCreating(q) == pc[q] = "creating" /\ pc'[q] # "creating"

\* C18: a worker leaves the Creating phase for Polling exactly when
\* RegisterRunnerQueue answered ok or Conflict, having retried after every
\* error with a longer backoff; it leaves it for termination exactly when
\* its context is cancelled or its drain signal has fired, without having
\* registered; and a worker that never registered issues no
\* GetMessagesBatch, UpdateRunnerQueue, GetRunnerQueue or DeleteRunnerQueue
C18_CreatingPhase ==
    [][\A q \in Ids :
          /\ LeavesCreating(q) /\ (CtxErr(q) \/ drain[q])
                => pc'[q] = "aborting" /\ ~registered'[q]
          /\ LeavesCreating(q) /\ ~(CtxErr(q) \/ drain[q])
                => pc'[q] = "polling" /\ registered'[q]
          /\ pc[q] = "creating" /\ pc'[q] = "creating" /\ registerCalls'[q] # registerCalls[q]
                => qmDelay' = BackoffDelay(qmDelay) /\ ~registered'[q]
          /\ pc[q] = "aborting" => pc'[q] \in {"aborting", "done"}
          /\ ~registered'[q]
                => /\ pc'[q] \in {"none", "creating", "aborting", "done"}
                   /\ ~updateCalled'[q] /\ ~getForDelete'[q] /\ ~deleteCalls'[q]
                   /\ opLog'[q] = NoOp]_vars

\* C18 witness: a worker whose registration failed several times was told to
\* drain before it registered and has terminated without a call for its
\* queue
C18_Witness ==
    \E q \in Ids :
        /\ pc[q] = "done" /\ ~registered[q] /\ ~cgCancelled
        /\ registerCalls[q] >= 2
        /\ drain[q]
        /\ opLog[q] = NoOp
\* C19 as stated: RegisterRunnerQueue, UpdateRunnerQueue and
\* DeleteRunnerQueue are each given up after maxRetries failed attempts, so
\* no operation issues more than maxRetries calls of its RPC (each operation
\* runs once for a queue)
C19_AtMostFiveCalls ==
    /\ \A q \in Ids : registerCalls[q] <= maxRetries
    /\ \A q \in Ids : opLog[q].calls <= maxRetries

\* C19 amended: the loops of markAsDraining and deleteQueue give up after
\* maxRetries failed attempts, so an operation issues at most maxRetries
\* UpdateRunnerQueue or DeleteRunnerQueue calls and at most maxRetries
\* GetRunnerQueue calls, and the worker goes on whether or not they
\* succeeded: from markAsDraining to the drain phase, from deleteQueue to
\* its exit with the decrement of nActual; a failed RegisterRunnerQueue call
\* is never the last one: the worker stays in createQueue, however many
\* calls have failed
C19_MarkAndDeleteBounded ==
    [][\A q \in Ids :
          /\ opLog'[q].calls <= maxRetries /\ opLog'[q].gets <= maxRetries
          /\ pc[q] = "marking" /\ pc'[q] # "marking" => pc'[q] = "draining"
          /\ pc[q] = "deleting" /\ pc'[q] # "deleting"
                => pc'[q] = "done" /\ nActualQueueCount' = nActualQueueCount - 1
          /\ pc[q] = "creating" /\ registerCalls'[q] # registerCalls[q] /\ ~registered'[q]
                => pc'[q] = "creating"]_vars

\* C19 witness: markAsDraining gave up after maxRetries failed
\* UpdateRunnerQueue calls and the worker is polling in its drain phase
C19_Witness ==
    \E q \in Ids :
        /\ opLog[q].kind = "mark" /\ ~opLog[q].ok
        /\ opLog[q].calls = maxRetries
        /\ pc[q] = "inDrainPoll"

\* k Conflict answers
Conflicts(k) == [i \in 1..k |-> "conflict"]

\* what a run leaves in opLog after k Conflicts and a success: one
\* GetRunnerQueue, k + 1 calls, the last with the version the last Conflict
\* carried (version 1 is the one GetRunnerQueue returned)
AfterConflicts(kind, k) ==
    [kind |-> kind, gets |-> 1, calls |-> k + 1, conflicts |-> k, sent |-> k + 1, ok |-> TRUE]

\* C20: when the coordinator answers UpdateRunnerQueue in markAsDraining
\* (DeleteRunnerQueue in deleteQueue) with k Conflicts, k < maxRetries, and
\* then with a success, the run makes one GetRunnerQueue call and k + 1
\* calls, each retry with the version the Conflict carried, the last call
\* succeeds and the queue-management backoff is back at its minimum
C20_ConflictRetry ==
    [][\A q \in Ids : \A k \in 0..(maxRetries - 1) :
          /\ MarkAsDraining(q, Conflicts(k) \o <<"ok">>)
                => opLog'[q] = AfterConflicts("mark", k) /\ qmDelay' = QmMin
          /\ PollExit(q, Conflicts(k) \o <<"ok">>) /\ ~skipDelete[q]
                => opLog'[q] = AfterConflicts("delete", k) /\ qmDelay' = QmMin]_vars

\* C20 witness: markAsDraining succeeded at its fifth UpdateRunnerQueue call,
\* after four Conflicts, with one GetRunnerQueue call
C20_Witness ==
    \E q \in Ids :
        /\ opLog[q] = AfterConflicts("mark", maxRetries - 1)
        /\ qmDelay = QmMin
        /\ faults = maxRetries - 1
        /\ pc[q] = "draining"

\* C21 as stated: a registered worker that has left the polling loop because
\* its context was cancelled (its drain signal never fired and it did not
\* meet NotFound) has attempted DeleteRunnerQueue for its queue by the time
\* it has terminated
C21_DeleteAfterCancel ==
    \A q \in Ids :
        pc[q] = "done" /\ registered[q] /\ ~skipDelete[q] /\ ~draining[q]
            => deleteCalls[q]

\* the results of a processMessage task that failed before it sent a reply,
\* and the tasks that end in the step
DropResults == {"badKey", "badSecret", "badMessage", "badWrap"}
Ends(m) == msgs[m].st = "received" /\ msgs'[m].st = "done"

\* C22: a task that fails (bad caller key, Unwrap failure, undecodable or
\* unknown message, Wrap failure, WriteResponse failure) writes no reply, or
\* one WriteResponse call when that call is what failed; it leaves every other
\* message, the worker of its queue and the contexts as they were, its message
\* is never processed again, and a poll that delivers messages resets the
\* batch backoff to its minimum whatever the messages hold
C22_FailureIsPerMessage ==
    [][/\ \A m \in MsgIds :
            /\ Ends(m) /\ msgs'[m].result \in DropResults
                  => msgs'[m].writes = 0 /\ msgs'[m].posted = NoWrite
            /\ Ends(m) /\ msgs'[m].result = "writeFailed" => msgs'[m].writes = 1
            /\ Ends(m) /\ msgs'[m].result # "written"
                  => /\ \A k \in MsgIds \ {m} : msgs'[k] = msgs[k]
                     /\ pc' = pc /\ cancelled' = cancelled /\ cgCancelled' = cgCancelled
                     /\ drain' = drain /\ panicked' = panicked
            /\ msgs[m].st = "done" => msgs'[m] = msgs[m]
       /\ nextMsg' > nextMsg => batchDelay' = BatchMin]_vars

\* a message failed, another message delivered on the same queue has its
\* reply written, and the worker is in a later poll, which failed polls have
\* slowed down again
C22_Witness ==
    \E m, k \in MsgIds :
        /\ msgs[m].st = "done" /\ msgs[m].result \in DropResults \cup {"writeFailed"}
        /\ msgs[k].st = "done" /\ msgs[k].result = "written"
        /\ msgs[m].queue = msgs[k].queue
        /\ pc[msgs[m].queue] = "inPoll"
        /\ batchDelay > BatchMin

\* the task of message m sends its reply in the step
Writes(m) == msgs'[m].writes > msgs[m].writes

\* the envelope of message m passes the parse of its key, Unwrap and
\* parseMessage
Decodes(m) ==
    /\ PemToPubKey(msgs[m].env.callerPublicKey).ok
    /\ Unwrap(msgs[m].env.payload, QueuePriv(msgs[m].queue)).ok
    /\ ParseMessage(Unwrap(msgs[m].env.payload, QueuePriv(msgs[m].queue)).data).ok

\* C23 as stated: once the task of a message whose key, Unwrap and decoding
\* succeed has returned, exactly one WriteResponse call has been made for it
C23_OneWritePerDecodedEnvelope ==
    \A m \in MsgIds : msgs[m].st = "done" /\ Decodes(m) => msgs[m].writes = 1

\* C23 amended: no message ever has more than one WriteResponse call; a task
\* makes the call exactly when key parsing, Unwrap, decoding, json.Marshal of
\* the reply and Wrap all succeed, whether or not the reply carries an
\* errorMessage and whether or not the call succeeds; the call carries the
\* reply of the handler and names the message id and caller id of the
\* envelope and the queue the envelope arrived on
C23_OneWritePerSealedReply ==
    [][\A m \in MsgIds :
          /\ msgs'[m].writes <= 1
          /\ Ends(m) =>
                /\ Writes(m) <=> Decodes(m) /\ msgs'[m].result \notin {"badReply", "badWrap"}
                /\ Writes(m) =>
                      /\ msgs'[m].posted.messageId = msgs[m].env.messageId
                      /\ msgs'[m].posted.callerId = msgs[m].env.callerId
                      /\ msgs'[m].posted.queueId = msgs[m].queue
                      /\ msgs'[m].posted.payload.data = Marshal(msgs'[m].resp)
          /\ msgs[m].st = "done" => msgs'[m].writes = msgs[m].writes]_vars

\* two messages of different callers are done, one reply carries an
\* errorMessage and the other does not, and each has its one call
C23_Witness ==
    \E m, k \in MsgIds :
        /\ msgs[m].st = "done" /\ msgs[k].st = "done"
        /\ msgs[m].env.callerId # msgs[k].env.callerId
        /\ msgs[m].writes = 1 /\ msgs[k].writes = 1
        /\ msgs[m].resp.errorMessage /\ ~msgs[k].resp.errorMessage

\* C24: the step in which a message task ends, its handler having returned a
\* reply with an errorMessage or not, leaves both backoff delays, the stats
\* window, lastScaleEvent and the two queue counts as they were
C24_HandlerIsolation ==
    [][\A m \in MsgIds :
          Ends(m) =>
              /\ batchDelay' = batchDelay /\ qmDelay' = qmDelay
              /\ nBatches' = nBatches /\ sumBatchPct' = sumBatchPct
              /\ measureStart' = measureStart /\ lastScaleEvent' = lastScaleEvent
              /\ nExpectedQueueCount' = nExpectedQueueCount
              /\ nActualQueueCount' = nActualQueueCount]_vars

\* the reply of a failed handler has been written while the stats window
\* holds the sample of its batch and the worker polls on
C24_Witness ==
    \E m \in MsgIds :
        /\ msgs[m].st = "done" /\ msgs[m].result = "written" /\ msgs[m].resp.errorMessage
        /\ nBatches = 1 /\ sumBatchPct > 0 /\ batchDelay = BatchMin
        /\ pc[msgs[m].queue] = "inPoll"

\* the public key the envelope of message m carries
EnvKey(m) == PemToPubKey(msgs[m].env.callerPublicKey).key

\* C28: the payload of every WriteResponse call is the serialized reply of the
\* handler wrapped with the key parsed from the envelope of the same message;
\* the caller's private key unwraps it to exactly the serialized reply, and it
\* is wrapped neither with the key of the queue nor with the different key of
\* another envelope
C28_EnvelopeRoundTrip ==
    \A m \in MsgIds :
        msgs[m].writes > 0 =>
            /\ msgs[m].posted.payload = Wrap(Marshal(msgs[m].resp), EnvKey(m))
            /\ Unwrap(msgs[m].posted.payload, CallerPriv(msgs[m].env.callerId))
                   = [ok |-> TRUE, data |-> Marshal(msgs[m].resp)]
            /\ ~Unwrap(msgs[m].posted.payload, QueuePriv(msgs[m].queue)).ok
            /\ \A k \in MsgIds :
                   msgs[k].st # "none" /\ EnvKey(k) # EnvKey(m)
                       => msgs[m].posted.payload.to # EnvKey(k)

\* the replies of two messages of different callers, delivered on the same
\* queue, have both been posted
C28_Witness ==
    \E m, k \in MsgIds :
        /\ msgs[m].writes > 0 /\ msgs[k].writes > 0
        /\ msgs[m].queue = msgs[k].queue
        /\ EnvKey(m) # EnvKey(k)

\* the delays a backoff takes from delay d up to its cap
RECURSIVE DelaySteps(_, _)
DelaySteps(d, max) ==
    IF d >= max THEN {max} ELSE {d} \cup DelaySteps(2 * d, max)

\* a GetMessagesBatch call of worker q returns in the step; the answer is
\* NotFound, or a batch with messages
PollEnds(q) == pc[q] \in {"inPoll", "inDrainPoll"} /\ pc'[q] # pc[q]
GotNotFound(q) == PollEnds(q) /\ skipDelete'[q] /\ ~skipDelete[q]
GotMessages(q) == PollEnds(q) /\ nBatches' = nBatches + 1 /\ sumBatchPct' > sumBatchPct

\* a RegisterRunnerQueue call of worker q fails, or is answered with ok or
\* Conflict, in the step
RegisterFails(q) == registerCalls'[q] = registerCalls[q] + 1 /\ ~registered'[q]
RegisterEnds(q) == registerCalls'[q] = registerCalls[q] + 1 /\ registered'[q]

\* C27: the batch delay is one of 1, 2, 4, 8, 16, 32, 50 ms and the
\* queue-management delay one of 10, 20, ..., 2560, 5000 ms; a poll that
\* fails or returns an empty batch doubles the batch delay up to the cap of
\* 50 ms, where it stays, a poll that returns messages resets it to 1 ms and
\* nothing else moves it; a failed RegisterRunnerQueue doubles the
\* queue-management delay up to the cap of 5 s, and the call that ends the
\* retries resets it to 10 ms (ok) or leaves it (Conflict)
C27_BackoffBounds ==
    /\ [](/\ batchDelay \in DelaySteps(BatchMin, BatchMax)
          /\ batchDelay >= BatchMin /\ batchDelay <= BatchMax
          /\ qmDelay \in DelaySteps(QmMin, QmMax)
          /\ qmDelay >= QmMin /\ qmDelay <= QmMax)
    /\ [][/\ \A q \in Ids :
                /\ PollEnds(q) =>
                      batchDelay' = IF GotNotFound(q) THEN batchDelay
                                    ELSE IF GotMessages(q) THEN BatchMin
                                    ELSE IF 2 * batchDelay > BatchMax THEN BatchMax
                                    ELSE 2 * batchDelay
                /\ RegisterFails(q) =>
                      qmDelay' = IF 2 * qmDelay > QmMax THEN QmMax ELSE 2 * qmDelay
                /\ RegisterEnds(q) => qmDelay' \in {QmMin, qmDelay}
          /\ (\A q \in Ids : ~PollEnds(q)) => batchDelay' = batchDelay]_vars

\* the batch backoff is at its cap, and the queue-management backoff had
\* reached its cap before the queue was registered at the tenth call
C27_Witness ==
    /\ batchDelay = BatchMax
    /\ \E q \in Ids : registered[q] /\ registerCalls[q] >= 10

\* every worker has returned and no message task runs
Terminated == \A q \in Ids : ~Running(q) /\ ~busy[q]

\* C25: once Close has cancelled the group context, the context of every
\* worker and message task that still runs is done, no worker starts a
\* GetMessagesBatch call, and eventually every worker and every message task
\* has returned and the scaler takes no more tick
C25_CloseCancelsAll ==
    /\ [][cgCancelled => \A q \in Ids : ~StartsPoll(q)]_vars
    /\ [](cgCancelled => \A q \in Ids : Running(q) \/ busy[q] => CtxErr(q))
    /\ cgCancelled ~> (Terminated /\ ~ScalerTicks)

\* Close came while a registered worker was polling, with a message task
\* running on its queue: every worker has returned, this one without calling
\* DeleteRunnerQueue, and no task is left
C25_Witness ==
    /\ cgCancelled /\ ~shutdownCalled /\ Terminated
    /\ \E q \in Ids : /\ pc[q] = "done" /\ registered[q]
                      /\ ~skipDelete[q] /\ ~deleteCalls[q] /\ ~draining[q]
    /\ \E q \in Ids : pc[q] = "done" /\ ~registered[q]

\* C26: whoever holds p.mux is inside one of the sections and at no backoff
\* wait, coordinator call or handler; a goroutine that is in I/O does not hold
\* it; and the holder can always run its section to the end and unlock without
\* any call returning, so a call that never returns keeps no scaler tick, no
\* stats accounting and no drainAll from getting the mutex
C26_MutexNotHeldAcrossIO ==
    /\ \A g \in Procs : mux = g => at[g] \in HeldPoints /\ at[g] \notin IOPoints
    /\ \A g \in Procs : at[g] \in IOPoints => mux # g
    /\ \A g \in Procs : mux = g => ENABLED (MuxUnlock(g) /\ MuxFrame)
    /\ mux = MuxFree => \A g \in Procs : at[g] \in LockPoints => ENABLED (MuxLock(g) /\ MuxFrame)

\* a worker waits for the answer of GetMessagesBatch and its message task for
\* its handler while the scaler is inside doScale and the caller of
\* ShutdownContext waits for the mutex
C26_Witness ==
    /\ at[Worker(1)] = "getBatch" /\ at[MsgTask(1)] = "handler"
    /\ mux = Scaler /\ at[Scaler] = "scaleHeld"
    /\ at[Caller] = "drainLock"

\* ---------------------------------------------------------------- GetJobs
\* strings.HasPrefix, strings.TrimPrefix and strings.LastIndex on texts; an
\* index counts from 0, as in Go
HasPrefix(s, p) == Len(s) >= Len(p) /\ SubSeq(s, 1, Len(p)) = p
TrimPrefix(s, p) == IF HasPrefix(s, p) THEN SubSeq(s, Len(p) + 1, Len(s)) ELSE s
LastIndex(s, c) ==
    LET hits == {i \in 1..Len(s) : s[i] = c}
    IN IF hits = {} THEN -1 ELSE (CHOOSE i \in hits : \A j \in hits : j <= i) - 1

\* strconv.Atoi: an optional sign, then one decimal digit or more
DigitValue ==
    ("0" :> 0) @@ ("1" :> 1) @@ ("2" :> 2) @@ ("3" :> 3) @@ ("4" :> 4) @@ ("5" :> 5)
        @@ ("6" :> 6) @@ ("7" :> 7) @@ ("8" :> 8) @@ ("9" :> 9)
RECURSIVE DecimalValue(_)
DecimalValue(t) ==
    IF t = <<>> THEN 0
    ELSE 10 * DecimalValue(SubSeq(t, 1, Len(t) - 1)) + DigitValue[t[Len(t)]]
Atoi(t) ==
    LET signed == t # <<>> /\ t[1] \in {"+", "-"}
        digits == IF signed THEN Tail(t) ELSE t
    IN IF digits = <<>> \/ \E i \in 1..Len(digits) : digits[i] \notin DOMAIN DigitValue
       THEN [ok |-> FALSE, n |-> 0]
       ELSE [ok |-> TRUE,
             n |-> IF signed /\ t[1] = "-" THEN 0 - DecimalValue(digits)
                   ELSE DecimalValue(digits)]

\* parseJobID: the prefix, then the task id up to the last dash, then the
\* turn index
ParseFailed == [ok |-> FALSE, taskID |-> <<>>, turnIndex |-> 0]
ParseJobID(id) ==
    LET trimmed == TrimPrefix(id, jobPrefix)
        idx == LastIndex(trimmed, "-")
        turn == Atoi(SubSeq(trimmed, idx + 2, Len(trimmed)))
    IN IF ~HasPrefix(id, jobPrefix) THEN ParseFailed
       ELSE IF idx = -1 THEN ParseFailed
       ELSE IF ~turn.ok THEN ParseFailed
       ELSE [ok |-> TRUE, taskID |-> SubSeq(trimmed, 1, idx), turnIndex |-> turn.n]

\* a Job as GetJobs appends it: title and date are filled in by fetchJobs
NewJob(parsed, running) ==
    [TaskID |-> parsed.taskID, TurnIndex |-> parsed.turnIndex, Running |-> running,
     TaskTitle |-> <<>>, CreatedDate |-> ZeroTime]

\* the loop of GetJobs over the running ids; st is the seen map and the jobs
RECURSIVE ListRunning(_, _)
ListRunning(ids, st) ==
    IF ids = <<>> THEN st
    ELSE LET id == Head(ids)
             parsed == ParseJobID(id)
         IN ListRunning(Tail(ids),
                IF ~parsed.ok THEN st
                ELSE [seen |-> st.seen \cup {id},
                      jobs |-> Append(st.jobs, NewJob(parsed, TRUE))])

\* the loop of GetJobs over all ids
RECURSIVE ListCompleted_Unseen(_, _)
ListCompleted_Unseen(ids, st) ==
    IF ids = <<>> THEN st
    ELSE LET id == Head(ids)
             parsed == ParseJobID(id)
         IN ListCompleted_Unseen(Tail(ids),
                IF ~parsed.ok THEN st
                ELSE [seen |-> st.seen \cup {id},
                      jobs |-> Append(st.jobs, NewJob(parsed, FALSE))])
RECURSIVE ListCompleted(_, _)
ListCompleted(ids, st) ==
    IF ids = <<>> THEN st
    ELSE LET id == Head(ids)
             parsed == ParseJobID(id)
         IN ListCompleted(Tail(ids),
                IF id \in st.seen THEN st
                ELSE IF ~parsed.ok THEN st
                ELSE [seen |-> st.seen \cup {id},
                      jobs |-> Append(st.jobs, NewJob(parsed, FALSE))])

\* what the API knows: tasks are titled by the first letter of their id, and
\* turn n of a task was created at time n
TitleOf(taskID) == SubSeq(taskID, 1, 1)
CreatedAt(taskID, turnIndex) == turnIndex
\* fetchJobs: GetTask gives the title and GetTurn the date; a call that fails
\* leaves the field as it was
FetchJobs(jobs, taskOk, turnOk) ==
    [i \in 1..Len(jobs) |->
        [jobs[i] EXCEPT
            !.TaskTitle = IF taskOk THEN TitleOf(jobs[i].TaskID) ELSE @,
            !.CreatedDate = IF turnOk THEN CreatedAt(jobs[i].TaskID, jobs[i].TurnIndex)
                            ELSE @]]

\* the order of Go strings, byte by byte
CharCode ==
    ("+" :> 43) @@ ("-" :> 45) @@ ("0" :> 48) @@ ("1" :> 49) @@ ("2" :> 50) @@ ("4" :> 52)
        @@ ("a" :> 97) @@ ("b" :> 98) @@ ("j" :> 106) @@ ("l" :> 108) @@ ("n" :> 110)
        @@ ("o" :> 111) @@ ("p" :> 112) @@ ("x" :> 120)
RECURSIVE TextLess(_, _)
TextLess(a, b) ==
    IF b = <<>> THEN FALSE
    ELSE IF a = <<>> THEN TRUE
    ELSE IF a[1] = b[1] THEN TextLess(Tail(a), Tail(b))
    ELSE CharCode[a[1]] < CharCode[b[1]]
\* the less function of sortJobs
JobLess(left, right) ==
    IF left.CreatedDate = right.CreatedDate
    THEN IF left.TaskTitle = right.TaskTitle THEN TextLess(left.TaskID, right.TaskID)
         ELSE TextLess(left.TaskTitle, right.TaskTitle)
    ELSE left.CreatedDate > right.CreatedDate
\* sortJobs: sort.Slice is not stable, so every order that respects the less
\* function can come out
RECURSIVE SortJobs(_)
SortJobs(jobs) ==
    IF jobs = <<>> THEN {<<>>}
    ELSE LET j == Head(jobs)
         IN UNION {{SubSeq(s, 1, p) \o <<j>> \o SubSeq(s, p + 1, Len(s)) :
                        p \in {k \in 0..Len(s) :
                                  /\ \A i \in 1..k : ~JobLess(j, s[i])
                                  /\ \A i \in (k + 1)..Len(s) : ~JobLess(s[i], j)}} :
                   s \in SortJobs(Tail(jobs))}

\* GetJobs: the lists are the answers of the provider, [err, ids]; the
\* result is every [err, jobs] the call can return
GetJobs(running, all, includeCompleted, taskOk, turnOk) ==
    LET listedRunning == ListRunning(running.ids, [seen |-> {}, jobs |-> <<>>])
        listedAll == IF includeCompleted THEN ListCompleted(all.ids, listedRunning)
                     ELSE listedRunning
    IN IF running.err \/ (includeCompleted /\ all.err) THEN {[err |-> TRUE, jobs |-> <<>>]}
       ELSE {[err |-> FALSE, jobs |-> s] :
                s \in SortJobs(FetchJobs(listedAll.jobs, taskOk, turnOk))}

\* the podman provider. GetRunningJobIDs: the names `podman ps` prints, one
\* line for each container, in any order, those with the prefix kept
RECURSIVE Orders(_)
Orders(S) == IF S = {} THEN {<<>>} ELSE UNION {{<<x>> \o s : s \in Orders(S \ {x})} : x \in S}
ListFailed == [err |-> TRUE, ids |-> <<>>]
GetRunningJobIDs ==
    {[err |-> FALSE, ids |-> s] : s \in Orders({c \in containers : HasPrefix(c, jobPrefix)})}
        \cup {ListFailed}
\* GetAllJobIDs: the entries of logDir as os.ReadDir returns them, sorted by
\* file name, those with the prefix kept
GetAllJobIDs ==
    {[err |-> FALSE,
      ids |-> SelectSeq(FileNames, LAMBDA n : n \in logFiles /\ HasPrefix(n, jobPrefix))],
     ListFailed}

\* a call of GetJobs against the provider
JobList(includeCompleted) ==
    \E running \in GetRunningJobIDs, all \in GetAllJobIDs, taskOk \in BOOLEAN, turnOk \in BOOLEAN :
        \E res \in GetJobs(running, all, includeCompleted, taskOk, turnOk) :
            /\ listed' = [called |-> TRUE, includeCompleted |-> includeCompleted,
                          running |-> Range(running.ids),
                          all |-> IF includeCompleted /\ ~running.err THEN Range(all.ids) ELSE {},
                          err |-> res.err, jobs |-> res.jobs]
            /\ UNCHANGED <<clock, statsVars, scaleVars, scaleCancelled, cgCancelled,
                           shutdownCalled, limitVars, lockVars, containers, logFiles, nextId, pc,
                           queueVars, rpcVars, histVars, panicked, opVars, batchDelay, taskVars,
                           waitVars>>

\* a runtime with any containers and any log files, before a call of GetJobs
InitJobs ==
    /\ idLimit = 1 /\ timeLimit = 0 /\ batchLimit = 1
    /\ faultLimit = 0 /\ slowHandlers = FALSE /\ keyGenFails = FALSE /\ trackMsgs = FALSE
    /\ trackBackoff = FALSE
    /\ trackMux = FALSE
    /\ trackSignal = FALSE
    /\ containers \in {S \in SUBSET JobNames : Cardinality(S) <= MaxContainers}
    /\ logFiles \in {S \in SUBSET JobNames : Cardinality(S) <= MaxLogFiles}
    /\ Constructed

NextJobs == \E includeCompleted \in BOOLEAN : JobList(includeCompleted)

SpecJobs == InitJobs /\ [][NextJobs]_vars

\* ------------------------------------------------------------------- C29
\* the jobs of the last call that stand for task t, turn n, running r
JobsFor(t, n, r) ==
    {i \in 1..Len(listed.jobs) :
        /\ listed.jobs[i].TaskID = t
        /\ listed.jobs[i].TurnIndex = n
        /\ listed.jobs[i].Running = r}
\* the ids the provider reported that parse to task t, turn n
IdsFor(ids, t, n) ==
    {id \in ids : ParseJobID(id).ok /\ ParseJobID(id).taskID = t /\ ParseJobID(id).turnIndex = n}
\* the ids GetAllJobIDs reported that GetRunningJobIDs did not
CompletedIds == IF listed.includeCompleted THEN listed.all \ listed.running ELSE {}
ParsedKeys ==
    {<<ParseJobID(id).taskID, ParseJobID(id).turnIndex>> :
        id \in {n \in JobNames : ParseJobID(n).ok}}

\* C29: a call of GetJobs that returns no error returns one job for each
\* distinct id that parses: the ids GetRunningJobIDs reported with Running
\* true; with includeCompleted the ids of GetAllJobIDs that are not among them
\* with Running false, none twice; without includeCompleted the running jobs
\* only; ids that do not parse give no job.
C29_OneJobPerParseableId ==
    (listed.called /\ ~listed.err) =>
        /\ \A i \in 1..Len(listed.jobs) :
               <<listed.jobs[i].TaskID, listed.jobs[i].TurnIndex>> \in ParsedKeys
        /\ \A k \in ParsedKeys :
               /\ Cardinality(JobsFor(k[1], k[2], TRUE))
                      = Cardinality(IdsFor(listed.running, k[1], k[2]))
               /\ Cardinality(JobsFor(k[1], k[2], FALSE))
                      = Cardinality(IdsFor(CompletedIds, k[1], k[2]))
        /\ ~listed.includeCompleted => \A i \in 1..Len(listed.jobs) : listed.jobs[i].Running

\* a call with includeCompleted that met, among the running ids and the log
\* files, the same id twice, two ids of one turn, and ids that do not parse
C29_Witness ==
    /\ listed.called /\ ~listed.err /\ listed.includeCompleted
    /\ listed.running \cap listed.all # {}
    /\ \E id \in listed.running \cup listed.all : ~ParseJobID(id).ok
    /\ \E a \in listed.running, b \in listed.all :
           a # b /\ ParseJobID(a).ok /\ ParseJobID(b).ok
               /\ ParseJobID(a).taskID = ParseJobID(b).taskID
               /\ ParseJobID(a).turnIndex = ParseJobID(b).turnIndex
    /\ Len(listed.jobs) >= 2

\* ------------------------------------------------------------------- C30
\* the worker of q has completed createQueue and is in its polling loop
InPolling(q) == pc[q] \in {"polling", "inPoll"}

\* C30: whenever nExpectedQueueCount equals nActualQueueCount, every queue
\* descriptor in p.queues has a worker that has left createQueue and is
\* polling, and no worker whose descriptor is not in p.queues (one draining
\* after a scale-down, a ghost being replaced) is still running.
C30_EqualCountsMeanQuiesced ==
    nExpectedQueueCount = nActualQueueCount =>
        /\ \A q \in Range(queues) : InPolling(q)
        /\ \A q \in Ids \ Range(queues) : ~Running(q)

\* ------------------------------------------------------------ signalDrain
\* a signaller is between close(qi.drain) and qi.draining = true of some
\* queue; it holds p.mux
SignalPending == {q \in Ids : drain[q] /\ ~draining[q]}
\* drainAll signals the queues in the order of p.queues, the order of their
\* ids: the next statement of the signaller is the flag of the first pending
\* queue, and the channels of the later ones are not closed yet
NextSignalled == CHOOSE q \in SignalPending : \A p \in SignalPending : q <= p
\* worker q sees its channel as the program has it
SeesDrain(q) == q \in SignalPending => q = NextSignalled
\* p.mux is free as far as signalDrain goes
MuxNotSignalling == SignalPending = {}

\* qi.draining = true, the second statement of signalDrain
SetDraining(q) ==
    /\ ~panicked
    /\ SignalPending # {}
    /\ q = NextSignalled
    /\ draining' = [draining EXCEPT ![q] = TRUE]
    /\ UNCHANGED <<clock, statsVars, scaleVars, ctlVars, nextId, pc, drain, skipDelete, cancelled,
                   startDrain, rpcVars, histVars, panicked, opVars, batchDelay, taskVars,
                   waitVars>>

\* the supervisor of two queues, signalDrain followed statement by statement
InitSignal ==
    /\ idLimit = 2 /\ timeLimit = MaxSignalTime /\ batchLimit = 1
    /\ faultLimit = 0 /\ slowHandlers = FALSE /\ keyGenFails = FALSE /\ trackMsgs = FALSE
    /\ trackBackoff = FALSE
    /\ trackMux = FALSE
    /\ trackSignal = TRUE
    /\ containers = {} /\ logFiles = {}
    /\ Constructed

\* the steps that take p.mux wait while a signaller holds it; the steps of a
\* worker that read qi.drain or qi.draining do not
NextSignal ==
    \/ Advance
    \/ MuxNotSignalling /\ DoScale
    \/ \E q \in Ids : \E res \in RegisterResults :
           MuxNotSignalling /\ SeesDrain(q) /\ CreateQueue(q, res)
    \/ \E q \in Ids : SeesDrain(q) /\ PollLoop(q)
    \/ \E q \in Ids : \E res \in PollResults : MuxNotSignalling /\ PollReturn(q, res)
    \/ \E q \in Ids : \E script \in ScriptsFor(q) : MarkAsDraining(q, script)
    \/ \E q \in Ids : DrainLoop(q)
    \/ \E q \in Ids : \E res \in PollResults : MuxNotSignalling /\ DrainPollReturn(q, res)
    \/ \E q \in Ids : MuxNotSignalling /\ PollAbort(q)
    \/ \E q \in Ids : \E script \in ScriptsFor(q) \cup {<<>>} :
           MuxNotSignalling /\ PollExit(q, script)
    \/ MuxNotSignalling /\ ShutdownContext(NoDeadline)
    \/ \E q \in Ids : SetDraining(q)

SpecSignal == InitSignal /\ [][NextSignal]_vars

\* ------------------------------------------------------------------- C31
\* the worker of q executes close(qi.drain) on a channel that is closed
ClosesClosedDrain(q) == pc[q] = "marking" /\ drain[q] /\ ~panicked /\ panicked'

\* C31: the drain channel of a queue is closed at most once: the signalDrain
\* of the scaler or of ShutdownContext and the worker's own signalDrain after
\* markAsDraining never close a channel that is already closed, whatever the
\* worker sees of qi.draining.
C31_DrainClosedOnce == [][\A q \in Ids : ~ClosesClosedDrain(q)]_vars

\* ------------------------------------------------------------------- C32
\* C32: in a graceful drain (the drain of the queue was signalled by a
\* scale-down or by ShutdownContext, the coordinator still knows the queue,
\* the group context is not cancelled), the worker has not cancelled the
\* queue's context and has issued no DeleteRunnerQueue for the queue as long
\* as a message task it spawned is running, so the WriteResponse of the task
\* meets a live context and a live queue.
C32_TasksOutliveNoTeardown ==
    \A q \in Ids :
        (busy[q] /\ draining[q] /\ ~skipDelete[q] /\ ~cgCancelled)
            => (~cancelled[q] /\ ~deleteCalls[q])

\* ------------------------------------------------------------------- C33
\* the worker of q is in createQueue or in one of the loops of poll
InLoops(q) == pc[q] \in {"creating", "polling", "inPoll", "marking", "draining", "inDrainPoll"}

\* C33: once ShutdownContext has run drainAll, nExpectedQueueCount is 0 and
\* p.queues is empty for good, every worker that has not left its loops has
\* its drain channel closed, and no step starts a worker: not a tick of the
\* scaler that races with cancelScale, not a NotFound answer.
C33_NoSpawnAfterDrain ==
    /\ [](shutdownCalled =>
            /\ nExpectedQueueCount = 0
            /\ queues = <<>>
            /\ \A q \in Ids : InLoops(q) => drain[q])
    /\ [][shutdownCalled =>
            /\ nextId' = nextId
            /\ \A q \in Ids : pc[q] \in {"none", "done"} => pc'[q] = pc[q]]_vars

\* after drainAll a worker that was in the list got NotFound and is on its
\* way out, while the scaler could still take a tick
C33_Witness ==
    /\ shutdownCalled /\ ~cgCancelled /\ clock = shutdownAt
    /\ \E q \in shutdownQueues : skipDelete[q] /\ Running(q) /\ pc[nextId] = "none"

\* ------------------------------------------------------------ agent jobs
\* the ctx of invokeAsync is the ctx of processMessage, a child of qi.ctx
JobCtxErr(m) == CtxErr(msgs[m].queue)

\* the agent job of message m runs to its end: the status updates, PullImage
\* and RunJob return without error
JobFinishes(m) ==
    /\ ~panicked
    /\ agentJobs[m] = "launched"
    /\ ~JobCtxErr(m)
    /\ agentJobs' = [agentJobs EXCEPT ![m] = "finished"]
    /\ UNCHANGED <<clock, statsVars, scaleVars, ctlVars, nextId, pc, queueVars, rpcVars,
                   histVars, panicked, opVars, batchDelay, busy, msgs, nextMsg, waitVars>>

\* the ctx of the job is done: updateTurnStatus fails, or exec.CommandContext
\* kills the command of PullImage or of RunJob
JobKilled(m) ==
    /\ ~panicked
    /\ agentJobs[m] = "launched"
    /\ JobCtxErr(m)
    /\ agentJobs' = [agentJobs EXCEPT ![m] = "killed"]
    /\ UNCHANGED <<clock, statsVars, scaleVars, ctlVars, nextId, pc, queueVars, rpcVars,
                   histVars, panicked, opVars, batchDelay, busy, msgs, nextMsg, waitVars>>

\* two queues whose messages and agent jobs are followed
InitAgent ==
    /\ idLimit = 2 /\ timeLimit = 0 /\ batchLimit = 1
    /\ faultLimit = 0 /\ slowHandlers = FALSE /\ keyGenFails = FALSE /\ trackMsgs = TRUE
    /\ trackBackoff = FALSE
    /\ trackMux = FALSE
    /\ trackSignal = FALSE
    /\ containers = {} /\ logFiles = {}
    /\ Constructed

\* the supervisor keeps running: no shutdown, no Close; a worker stops when
\* the coordinator no longer knows its queue
NextAgent ==
    \/ \E q \in Ids : \E res \in RegisterResults : CreateQueue(q, res)
    \/ \E q \in Ids : PollLoop(q)
    \/ \E q \in Ids : \E res \in MsgPollResults \cup {[kind |-> "NotFound", n |-> 0]} :
           PollReturn(q, res)
    \/ \E m \in MsgIds : \E h \in Handlings : ProcessMessage(m, h)
    \/ \E q \in Ids : \E script \in ScriptsFor(q) \cup {<<>>} : PollExit(q, script)
    \/ \E m \in MsgIds : JobFinishes(m)
    \/ \E m \in MsgIds : JobKilled(m)

SpecAgent == InitAgent /\ [][NextAgent]_vars

\* ------------------------------------------------------------------- C34
\* C34: while the supervisor runs (no Close), the agent job that the
\* InvokeAgent handler launched for a message is never killed, also when the
\* worker that received the message has stopped.
C34_JobSurvivesWorker == \A m \in DOMAIN agentJobs : agentJobs[m] = "killed" => cgCancelled

\* ------------------------------------------------- leaving the drain phase
\* worker q is in the drain loop of poll
InDrainPhase(q) == pc[q] \in {"draining", "inDrainPoll"}

\* this step takes worker q out of the drain loop, to the deferred calls
LeavesDrain(q) == InDrainPhase(q) /\ pc'[q] = "deleting"

\* this step is a poll of worker q that brought at least one message
PollBroughtMessages(q) ==
    pc[q] = "inDrainPoll" /\ pc'[q] # "inDrainPoll" /\ sumBatchPct' > sumBatchPct

\* this step is a poll of worker q that was answered NotFound
PollNotFound(q) == pc[q] = "inDrainPoll" /\ ~skipDelete[q] /\ skipDelete'[q]

\* C35: a worker leaves the drain phase only on a poll without messages once
\* 30 s have passed since the drain started; before that only because its
\* context is done or the queue is not found; and a poll that brought a
\* message never ends the phase
C35_DrainExitCondition ==
    [][\A q \in Ids :
          /\ LeavesDrain(q) =>
                \/ pc[q] = "draining" /\ CtxErr(q)
                \/ PollNotFound(q)
                \/ /\ pc[q] = "inDrainPoll"
                   /\ ~PollBroughtMessages(q)
                   /\ Sub(clock, startDrain[q]) >= DrainGrace
          /\ PollBroughtMessages(q) => pc'[q] = "draining"]_vars

\* a worker has left the drain loop on an empty poll after the grace, its
\* context alive and its queue still there
C35_Witness ==
    \E q \in Ids :
        /\ pc[q] = "deleting" /\ draining[q] /\ ~skipDelete[q] /\ ~CtxErr(q)
        /\ startDrain[q] # ZeroTime
        /\ Sub(clock, startDrain[q]) >= DrainGrace

\* ------------------------------------------- order of the coordinator calls
\* a GetMessagesBatch of worker q is outstanding
PollOutstanding(q) == pc[q] \in {"inPoll", "inDrainPoll"}

\* this step issues a GetMessagesBatch for queue q
IssuesPoll(q) == ~PollOutstanding(q) /\ PollOutstanding(q)'

\* this step issues the first UpdateRunnerQueue for queue q
IssuesUpdate(q) == ~updateCalled[q] /\ updateCalled'[q]

\* C36: the calls of a worker follow its phases: GetMessagesBatch only once
\* RegisterRunnerQueue answered ok or Conflict, one at a time;
\* UpdateRunnerQueue only in markAsDraining, after the drain was seen and
\* before the first poll of the drain loop; nothing after DeleteRunnerQueue
C36_CallsFollowPhases ==
    /\ [](\A q \in Ids :
            /\ PollOutstanding(q) => registered[q] /\ ~deleteCalls[q]
            /\ updateCalled[q] =>
                  drain[q] /\ pc[q] \in {"draining", "inDrainPoll", "deleting", "done"}
            /\ deleteCalls[q] => pc[q] = "done")
    /\ [][\A q \in Ids :
            /\ IssuesPoll(q) =>
                  \/ pc[q] = "polling" /\ pc'[q] = "inPoll"
                  \/ pc[q] = "draining" /\ pc'[q] = "inDrainPoll" /\ opLog[q].kind = "mark"
            /\ PollOutstanding(q) /\ pc'[q] # pc[q] => ~PollOutstanding(q)'
            /\ IssuesUpdate(q) => pc[q] = "marking" /\ drain[q] /\ pc'[q] = "draining"
            /\ deleteCalls[q] => updateCalled'[q] = updateCalled[q] /\ pc'[q] = pc[q]]_vars

\* a worker went through all four phases: it registered, polled, issued
\* UpdateRunnerQueue after failed attempts, and DeleteRunnerQueue
C36_Witness ==
    \E q \in Ids :
        /\ pc[q] = "done" /\ registered[q] /\ updateCalled[q] /\ deleteCalls[q]
        /\ nBatches > 0 /\ faults > 0

\* ------------------------------------------------ suppressed replacement
\* this step is handleQueueNotFound of worker q
NotFoundStep(q) == PollOutstanding(q) /\ ~skipDelete[q] /\ skipDelete'[q]

\* the condition under which handleQueueNotFound returns at once
ReplacementSuppressed(q) == draining[q] \/ CtxErr(q) \/ nExpectedQueueCount = 0

\* C37: handleQueueNotFound of a worker that is draining, whose context is
\* done, or that runs while nExpected is 0 sets skipDelete and nothing else:
\* the list of workers, nExpected and nActual stay as they are, no worker is
\* started, and the worker goes on to its exit
C37_SuppressedReplacement ==
    [][\A q \in Ids :
          NotFoundStep(q) /\ ReplacementSuppressed(q) =>
              /\ queues' = queues
              /\ nExpectedQueueCount' = nExpectedQueueCount
              /\ nActualQueueCount' = nActualQueueCount
              /\ nextId' = nextId
              /\ pc' = [pc EXCEPT ![q] = "deleting"]
              /\ skipDelete' = [skipDelete EXCEPT ![q] = TRUE]
              /\ UNCHANGED <<drain, draining, cancelled, lastScaleEvent>>]_vars

\* a draining worker was told that its queue is not found while the group's
\* context is alive; it is on its way out and no worker was started for it
C37_Witness ==
    \E q \in Ids :
        /\ pc[q] = "deleting" /\ skipDelete[q] /\ draining[q] /\ ~cgCancelled
        /\ nextId = 2

\* ------------------------------------------------ termination of a shutdown
\* the supervisor of two queues with slow message tasks over unbounded time,
\* signalDrain followed statement by statement
InitTerm ==
    /\ idLimit = 2 /\ timeLimit = 2 * Minute /\ batchLimit = 1
    /\ faultLimit = 0 /\ slowHandlers = TRUE /\ keyGenFails = FALSE /\ trackMsgs = FALSE
    /\ trackBackoff = FALSE
    /\ trackMux = FALSE
    /\ trackSignal = TRUE
    /\ containers = {} /\ logFiles = {}
    /\ Constructed

\* the steps of NextSignal over unbounded time, with the message tasks and
\* the caller that waits in ShutdownContext without a deadline
NextTerm ==
    \/ Advance
    \/ AdvanceLate
    \/ MuxNotSignalling /\ DoScale
    \/ \E q \in Ids : \E res \in RegisterResults :
           MuxNotSignalling /\ SeesDrain(q) /\ CreateQueue(q, res)
    \/ \E q \in Ids : SeesDrain(q) /\ PollLoop(q)
    \/ \E q \in Ids : \E res \in PollResults : MuxNotSignalling /\ PollReturn(q, res)
    \/ \E q \in Ids : \E script \in ScriptsFor(q) : MarkAsDraining(q, script)
    \/ \E q \in Ids : DrainLoop(q)
    \/ \E q \in Ids : \E res \in PollResults : MuxNotSignalling /\ DrainPollReturn(q, res)
    \/ \E q \in Ids : MuxNotSignalling /\ PollAbort(q)
    \/ \E q \in Ids : \E script \in ScriptsFor(q) \cup {<<>>} :
           MuxNotSignalling /\ PollExit(q, script)
    \/ \E q \in Ids : HandlerDone(q)
    \/ MuxNotSignalling /\ ShutdownContext(NoDeadline)
    \/ \E q \in Ids : SetDraining(q)
    \/ ShutdownReturn("nil")

\* time passes, every goroutine that can take a step eventually takes it,
\* every coordinator call and every handler eventually returns, and a worker
\* that keeps polling after its grace eventually gets a poll without messages
FairTerm ==
    /\ WF_vars(Advance \/ AdvanceLate)
    /\ WF_vars(ShutdownReturn("nil"))
    /\ \A q \in Ids :
          /\ WF_vars(\E res \in RegisterResults :
                        MuxNotSignalling /\ SeesDrain(q) /\ CreateQueue(q, res))
          /\ WF_vars(SeesDrain(q) /\ PollLoop(q))
          /\ WF_vars(\E res \in PollResults : MuxNotSignalling /\ PollReturn(q, res))
          /\ WF_vars(\E script \in ScriptsFor(q) : MarkAsDraining(q, script))
          /\ WF_vars(DrainLoop(q))
          /\ SF_vars(MuxNotSignalling /\ DrainExit(q))
          /\ WF_vars(MuxNotSignalling /\ PollAbort(q))
          /\ WF_vars(\E script \in ScriptsFor(q) \cup {<<>>} :
                        MuxNotSignalling /\ PollExit(q, script))
          /\ WF_vars(HandlerDone(q))
          /\ WF_vars(SetDraining(q))

SpecTerm == InitTerm /\ [][NextTerm]_vars /\ FairTerm

\* C38: once ShutdownContext was called, and while calls and handlers return
\* and drained queues get a poll without messages after their grace, every
\* worker and message task ends, nActual reaches 0 and the wait returns nil
C38_ShutdownTerminates ==
    shutdownCalled ~>
        (Terminated /\ nActualQueueCount = 0 /\ shutdownReturn = "nil")

\* ------------------------------------------------ writes of lastScaleEvent
\* this step is a tick of doScale that has reset the stats window: the
\* decisions up and down need a sample, and only resetStats empties the window
ScalerResets == ~shutdownCalled' /\ nBatches > 0 /\ nBatches' = 0

\* this step is scaleUp, scaleDown at one worker, scaleDown that removes one
ScaleUpStep == ScalerResets /\ Decision = "up"
ScaleDownNoop == ScalerResets /\ Decision = "down" /\ Len(queues) = 1
ScaleDownRemoves == ScalerResets /\ Decision = "down" /\ Len(queues) > 1

\* this step replaces the queue of a ghost
ReplacesGhost ==
    \E q \in Ids : ~skipDelete[q] /\ skipDelete'[q] /\ nextId' = nextId + 1

\* C39: lastScaleEvent becomes the current time at every increment or
\* decrement of nActual that makes it equal to nExpected and at no other;
\* at a scale-up only if the counts are equal after it; at the scale-down that
\* finds one worker; not at a scale-down that removes a worker; and the
\* replacement of a ghost leaves nExpected and the time stamp as they are,
\* so the stamp is taken when the counts meet again
C39_LastScaleEventWrites ==
    [][/\ nActualQueueCount' # nActualQueueCount =>
            lastScaleEvent' = IF nActualQueueCount' = nExpectedQueueCount'
                              THEN clock ELSE lastScaleEvent
       /\ ScaleUpStep =>
            lastScaleEvent' = IF nExpectedQueueCount' = nActualQueueCount'
                              THEN clock ELSE lastScaleEvent
       /\ ScaleDownNoop => lastScaleEvent' = clock /\ queues' = queues
       /\ ScaleDownRemoves =>
            lastScaleEvent' = lastScaleEvent /\ Len(queues') = Len(queues) - 1
       /\ ReplacesGhost =>
            /\ nExpectedQueueCount' = nExpectedQueueCount
            /\ lastScaleEvent' = lastScaleEvent]_vars

\* a ghost was replaced after the last scale event and both its exit and
\* the replacement's registration are done: the counts have met again and
\* the stamp is the time of that meeting, later than the scale-up
C39_Witness ==
    \E q \in Ids :
        /\ skipDelete[q] /\ pc[q] = "done"
        /\ nActualQueueCount = nExpectedQueueCount /\ nExpectedQueueCount = 2
        /\ lastScaleEvent = clock /\ lastChange < clock /\ lastChange > 0
        /\ \A r \in Ids : pc[r] \in {"none", "done", "polling", "inPoll"}

\* ------------------------------------------- the backoffs of two workers
\* the supervisor of two workers, the delays of both backoffs followed: the
\* scaler adds the second worker after one minute
InitShared ==
    /\ idLimit = 2 /\ timeLimit = MaxSharedTime /\ batchLimit = 1
    /\ faultLimit = MaxSharedFaults /\ slowHandlers = FALSE /\ keyGenFails = FALSE
    /\ trackMsgs = FALSE
    /\ trackBackoff = TRUE
    /\ trackMux = FALSE
    /\ trackSignal = FALSE
    /\ containers = {} /\ logFiles = {}
    /\ Constructed

NextShared ==
    \/ Advance
    \/ DoScale
    \/ \E q \in Ids : \E res \in RegisterResults : CreateQueue(q, res)
    \/ \E q \in Ids : PollLoop(q)
    \/ \E q \in Ids : \E res \in PollResults : PollReturn(q, res)
    \/ \E q \in Ids : \E script \in ScriptsFor(q) : MarkAsDraining(q, script)
    \/ \E q \in Ids : DrainLoop(q)
    \/ \E q \in Ids : \E res \in PollResults : DrainPollReturn(q, res)
    \/ \E q \in Ids : PollAbort(q)
    \/ \E q \in Ids : \E script \in ScriptsFor(q) \cup {<<>>} : PollExit(q, script)
    \/ ShutdownContext(NoDeadline)

SpecShared == InitShared /\ [][NextShared]_vars

\* this step is the return of a GetMessagesBatch of worker q
PollReturns(q) == PollOutstanding(q) /\ pc'[q] # pc[q]

\* worker q is about to wait on p.batchBackoff for its next poll
AboutToPoll(q) == pc[q] \in {"polling", "draining"} /\ ~drain[q] /\ ~CtxErr(q)

\* this step is a queue-management call, or a run of them, of worker q
AdminStep(q) ==
    \/ pc[q] = "creating" /\ registerCalls'[q] # registerCalls[q]
    \/ pc[q] \in {"marking", "deleting"} /\ pc'[q] # pc[q]

\* worker q is about to wait on p.queueManagementBackoff
AboutToAdmin(q) ==
    /\ pc[q] \in {"creating", "marking", "deleting"}
    /\ ~CtxErr(q) /\ ~(pc[q] = "deleting" /\ skipDelete[q])

\* C40 as stated: the outcome of a poll of one worker leaves the delay that
\* another worker is about to wait as it was, and so does a queue-management
\* call of one worker with the delay of another
C40_DelayIsPerWorker ==
    [][\A q, r \in Ids :
          q # r =>
              /\ PollReturns(q) /\ AboutToPoll(r) => batchDelay' = batchDelay
              /\ AdminStep(q) /\ AboutToAdmin(r) => qmDelay' = qmDelay]_vars

\* C40 amended: each backoff is one instance of the Poller that all its
\* workers share, and the two are independent of each other: the return of
\* a poll of any worker doubles the batch delay up to its cap when it
\* brought no message, resets it when it brought one, leaves it on NotFound,
\* and never touches the queue-management delay; a queue-management call
\* never touches the batch delay; no other step touches either
C40_DelayIsPerClass ==
    [][/\ \A q \in Ids :
            /\ PollReturns(q) =>
                  /\ qmDelay' = qmDelay
                  /\ batchDelay' =
                        IF ~skipDelete[q] /\ skipDelete'[q] THEN batchDelay
                        ELSE IF sumBatchPct' > sumBatchPct THEN BatchMin
                        ELSE BatchBackoffDelay(batchDelay)
            /\ AdminStep(q) => batchDelay' = batchDelay
       /\ batchDelay' # batchDelay => \E q \in Ids : PollReturns(q)
       /\ qmDelay' # qmDelay => \E q \in Ids : AdminStep(q)]_vars

\* two registered workers are in their polling loops, the batch delay they
\* share is at its cap and the queue-management delay is above its minimum
C40_Witness ==
    /\ \A q \in 1..2 : pc[q] \in {"polling", "inPoll"} /\ registered[q]
    /\ batchDelay = BatchMax
    /\ qmDelay > QmMin

====
